---- MODULE Spec2Model ----
(***************************************************************************)
(* Model of the Cafe24 access layer: RateLimiter, the response cache and   *)
(* Cafe24APIClient._make_request (src/mcp_server/cafe24_client.py),        *)
(* Cafe24Config.validate_config, API_ENDPOINTS and ERROR_CODES             *)
(* (src/mcp_server/cafe24_config.py), the Repository's lazy client, its    *)
(* endpoint lookups and cache pass-through                                 *)
(* (src/mcp_server/cafe24_repository.py) and the envelopes of the Service  *)
(* operations (src/mcp_server/cafe24_service.py).                          *)
(*                                                                         *)
(* Time is time.time() in whole units.  The asyncio event loop runs one    *)
(* coroutine at a time.  In the client each action is the code between two *)
(* awaits that really suspend: asyncio.sleep in RateLimiter.acquire and    *)
(* the HTTP exchange of session.request / response.json.  In the Service   *)
(* and the Repository each await is a step of its own: the entry of the    *)
(* operation, _get_client, the Repository method, and the return.          *)
(* Message texts are given in English; the source's texts are Korean.      *)
(***************************************************************************)
EXTENDS Integers, Sequences, FiniteSets, TLC

\* ------------------------------------------------------------- bounds
\* The clock reads at most MaxTime (see Tick and Shift).
MaxTime == 3
\* RateLimiter(max_requests, time_window) and cache_ttl_seconds, scaled down.
MaxRequests == 2
TimeWindow == 2
CacheTtl == 2

\* ------------------------------------------------------------- universe
Tasks == {1, 2}
ClientIds == {1, 2}
NoClient == 0

Urls == {"u1", "u2"}

\* Python values: None, an int, a str (v is the text of the value).
PyNone == [type |-> "NoneType", v |-> ""]
PyInt(s) == [type |-> "int", v |-> s]
PyStr(s) == [type |-> "str", v |-> s]

\* bool(x): None, 0 and the empty string are falsy.
PyTruthy(x) ==
    ~(\/ x.type = "NoneType"
      \/ x.type = "int" /\ x.v = "0"
      \/ x.type = "str" /\ x.v = "")

\* The params argument: None, or a dict with string keys, given by its items
\* <<name, value>> in insertion order.
NoParams == [given |-> FALSE, items |-> << >>]
Dict(items) == [given |-> TRUE, items |-> items]

\* The keyword arguments of the Repository's methods and their defaults.
ArgNames ==
    {"limit", "offset", "category_no", "product_name", "start_date", "end_date",
     "order_status", "member_id", "email", "group_by"}
DefaultArgs ==
    [n \in ArgNames |->
        CASE n = "limit" -> PyInt("10")
          [] n = "offset" -> PyInt("0")
          [] n = "group_by" -> PyStr("date")
          [] OTHER -> PyNone]

\* The calls the tasks issue: execute(method, endpoint, params, use_cache).
Requests ==
    { [method |-> "GET", url |-> u, params |-> NoParams, use_cache |-> TRUE] : u \in Urls }
    \cup { [method |-> "GET", url |-> "u1", params |-> NoParams, use_cache |-> FALSE],
           [method |-> "POST", url |-> "u1", params |-> NoParams, use_cache |-> TRUE] }
NoReq == [method |-> "-", url |-> "-", params |-> NoParams, use_cache |-> FALSE]

\* Credential fields: a set value "set", the empty string, a whitespace-only
\* string.
ValidCfg == [client_id |-> "set", client_secret |-> "set",
             access_token |-> "set", mall_id |-> "set"]
Configs ==
    {ValidCfg}
    \cup { [ValidCfg EXCEPT ![f] = v] :
             f \in {"client_id", "client_secret", "access_token", "mall_id"},
             v \in {"", " "} }

\* ------------------------------------------------------------- JSON bodies
\* What response.json() gives: a JSON object (with or without an "error"
\* member, which is itself an object, with or without "message", or a string),
\* JSON null, or no value at all (json.JSONDecodeError, or aiohttp's
\* ContentTypeError, a ClientError).
Obj(d) == [kind |-> "object", error |-> "absent", message |-> "absent", data |-> d]
EmptyObj == Obj("-")
ErrMsgBody == [kind |-> "object", error |-> "object", message |-> "bad price", data |-> "-"]
ErrNoMsgBody == [kind |-> "object", error |-> "object", message |-> "absent", data |-> "-"]
ErrStrBody == [kind |-> "object", error |-> "string", message |-> "absent", data |-> "-"]
NullBody == [kind |-> "null", error |-> "absent", message |-> "absent", data |-> "-"]
BadJsonBody == [kind |-> "bad_json", error |-> "absent", message |-> "absent", data |-> "-"]
NotJsonBody == [kind |-> "not_json", error |-> "absent", message |-> "absent", data |-> "-"]

\* Python truthiness of a decoded body: None and {} are falsy.
Truthy(body) == body.kind = "object" /\ body # EmptyObj

VARIABLES
    now,        \* time.time()
    config,     \* cafe24_config: the four required credential fields
    session,    \* session[c]: "unborn" (no such client), "none", "open", "closed"
    limiter,    \* limiter[c]: RateLimiter.max_requests of client c
    requests,   \* requests[c]: RateLimiter.requests of client c
    cache,      \* cache[c]: Cafe24APIClient._cache of client c, by cache key
    repo,       \* Cafe24Repository.client: a client id, or NoClient
    task,       \* task[t]: the coroutine of caller t
    ev          \* what the last step was (see Event)

vars == <<now, config, session, limiter, requests, cache, repo, task, ev>>

\* ------------------------------------------------------------- configuration
\* Cafe24Config.validate_config: all(field.strip() for field in required_fields).
Strip(field) == IF field = " " THEN "" ELSE field

ValidateConfig(cfg) ==
    /\ Strip(cfg.client_id) # ""
    /\ Strip(cfg.client_secret) # ""
    /\ Strip(cfg.access_token) # ""
    /\ Strip(cfg.mall_id) # ""

\* ERROR_CODES: the status-code -> message table.
ERROR_CODES ==
    (400 :> "bad request" @@ 401 :> "authentication failed" @@ 403 :> "forbidden"
     @@ 404 :> "resource not found" @@ 409 :> "duplicate request"
     @@ 422 :> "invalid parameter" @@ 429 :> "rate limit exceeded"
     @@ 500 :> "internal server error" @@ 503 :> "service unavailable"
     @@ 504 :> "request timeout")

\* ERROR_CODES.get(response.status, "unknown error")
ErrorCodesGet(status) ==
    IF status \in DOMAIN ERROR_CODES THEN ERROR_CODES[status] ELSE "unknown error"

\* ------------------------------------------------------------- rate limiter
\* Mutant: a timestamp whose age equals the window is kept (<=).
Prune_Inclusive(reqs, t) == SelectSeq(reqs, LAMBDA r : t - r <= TimeWindow)

\* self.requests = [r for r in self.requests if now - r < self.time_window]
Prune(reqs, t) == SelectSeq(reqs, LAMBDA r : t - r < TimeWindow)

\* Mutant: the capacity test is off by one (>).
AtCapacity_OffByOne(reqs, max) == Len(reqs) > max

\* len(self.requests) >= self.max_requests
AtCapacity(reqs, max) == Len(reqs) >= max

\* sleep_time = self.time_window - (now - self.requests[0])
SleepTime(reqs, t) == TimeWindow - (t - reqs[1])

\* Mutant: a caller that has to wait records its timestamp already.
Kept_Appended(reqs, t) == Append(reqs, t)

\* The list a caller that has to wait leaves behind: the pruned list, with
\* nothing appended.
Kept(reqs, t) == reqs

\* At capacity with nothing recorded (max_requests = 0), self.requests[0]
\* raises IndexError.
IndexFails(reqs, max) == AtCapacity(reqs, max) /\ Len(reqs) = 0

\* The call suspends in asyncio.sleep (and re-evaluates on waking) iff the
\* pruned list is at capacity and sleep_time > 0; otherwise it appends now.
MustSleep(reqs, t, max) ==
    AtCapacity(reqs, max) /\ Len(reqs) > 0 /\ SleepTime(reqs, t) > 0

\* ------------------------------------------------------------- cache
\* The parameter names, in the order sort_keys puts them in.
SortedNames ==
    <<"category_no", "email", "end_date", "group_by", "limit", "member_id",
      "offset", "order_status", "product_name", "start_date">>

\* json.dumps of a value: a number, a string or null.
JsonValue(x) ==
    [json |-> IF x.type = "int" THEN "number"
              ELSE IF x.type = "str" THEN "string" ELSE "null",
     text |-> x.v]

\* Mutant: the members are written in insertion order.
JsonDumps_Unsorted(items) ==
    [i \in 1..Len(items) |-> <<items[i][1], JsonValue(items[i][2])>>]

\* json.dumps(params, sort_keys=True): the members in the order of their
\* names, each value in its JSON form.
JsonDumps(items) ==
    LET names == { items[i][1] : i \in 1..Len(items) }
        value(n) == items[CHOOSE i \in 1..Len(items) : items[i][1] = n][2]
        sorted == SelectSeq(SortedNames, LAMBDA n : n \in names)
    IN  [i \in 1..Len(sorted) |-> <<sorted[i], JsonValue(value(sorted[i]))>>]

\* _get_cache_key: "|".join([method, url] + ([json.dumps(params, sort_keys=True)]
\* if params else [])); None and the empty dict are falsy.
GetCacheKey(method, url, params) ==
    IF params.given /\ Len(params.items) > 0
    THEN <<method, url, JsonDumps(params.items)>>
    ELSE <<method, url>>

CacheKeys == { GetCacheKey(r.method, r.url, r.params) : r \in Requests }

\* A cache slot: the entry {"data", "timestamp"}, or nothing.  by is a record
\* of the call that wrote the entry (not program state).
NoWriter == [task |-> 0, method |-> "-", url |-> "-", params |-> NoParams,
             use_cache |-> FALSE, status |-> 0]
Absent == [present |-> FALSE, data |-> NullBody, timestamp |-> 0, by |-> NoWriter]
Entry(body, t, who, r, status) ==
    [present |-> TRUE, data |-> body, timestamp |-> t,
     by |-> [task |-> who, method |-> r.method, url |-> r.url, params |-> r.params,
             use_cache |-> r.use_cache, status |-> status]]
\* The empty cache of a client that is asked for the calls RR.
EmptyCacheOf(RR) ==
    [k \in { GetCacheKey(r.method, r.url, r.params) : r \in RR } |-> Absent]
EmptyCache == [k \in CacheKeys |-> Absent]

\* Mutant: the age test is inverted (>).
IsCacheValid_Inverted(entry, t) == entry.present /\ t - entry.timestamp > CacheTtl

\* Mutant: an entry is still served at age == ttl (<=).
IsCacheValid_Inclusive(entry, t) == entry.present /\ t - entry.timestamp <= CacheTtl

\* _is_cache_valid: time.time() - cached_time < cache_ttl_seconds
IsCacheValid(entry, t) == entry.present /\ t - entry.timestamp < CacheTtl

\* Mutant: use_cache is ignored.
CacheEligible_IgnoresFlag(r) == r.method = "GET"

\* method.upper() == "GET" and use_cache
CacheEligible(r) == r.method = "GET" /\ r.use_cache

KeyOf(r) == GetCacheKey(r.method, r.url, r.params)

\* The lookup of _make_request finds a valid entry.
CacheHit(c, r) == CacheEligible(r) /\ IsCacheValid(cache[c][KeyOf(r)], now)

\* Mutant: only the expired entries are dropped.
Cleared_ExpiredOnly(entries) ==
    [k \in DOMAIN entries |->
        IF entries[k].present /\ now - entries[k].timestamp < CacheTtl
        THEN entries[k] ELSE Absent]

\* clear_cache: self._cache.clear()
Cleared(entries) == [k \in DOMAIN entries |-> Absent]

\* ------------------------------------------------------------- results
\* What a call ended with: the returned body, or the exception raised.
\* src records where the result came from.  storedAt is the time at which the
\* call stored its body in the cache, kept for as long as that entry can
\* still be served: until clear_cache runs or the TTL has passed (else -1).
NoRes == [kind |-> "none", status |-> 0, message |-> "", data |-> NullBody,
          details |-> EmptyObj, src |-> "-", storedAt |-> -1]

\* Cafe24APIError(status_code, message, details): self.details = details or {}
APIError(status, message, details) ==
    [NoRes EXCEPT !.kind = "APIError", !.status = status, !.message = message,
                  !.details = IF Truthy(details) THEN details ELSE EmptyObj]

\* An exception that is no Cafe24APIError.
Raised(kind) == [NoRes EXCEPT !.kind = kind]

Returned(body, src, storedAt) ==
    [NoRes EXCEPT !.kind = "ok", !.data = body, !.src = src,
                  !.storedAt = storedAt]

\* Mutant: the table's message is used whatever the body says.
ErrorMsg_TableOnly(status, body) == ErrorCodesGet(status)

\* Mutant: error_details.get("message") without the default.
ErrorMsg_NoDefault(status, body) ==
    IF body.error = "absent" THEN ErrorCodesGet(status) ELSE body.message

\* Lines 120-123: the table's message, replaced by the body's error message
\* when the body has an "error" member that has a "message".
ErrorMsg(status, body) ==
    IF body.error = "absent" THEN ErrorCodesGet(status)
    ELSE IF body.message = "absent" THEN ErrorCodesGet(status)
    ELSE body.message

\* Lines 117-144 on a received response: the decode, the status check, the
\* raise, and the exceptions the except clauses turn into status 500.
\* "error" in None is a TypeError and "str".get an AttributeError: neither is
\* caught.
ResponseResult(status, body, stored, t) ==
    IF body.kind = "bad_json" THEN APIError(500, "parse error", EmptyObj)
    ELSE IF body.kind = "not_json" THEN APIError(500, "network error", EmptyObj)
    ELSE IF status >= 400 THEN
        IF body.kind = "null" THEN Raised("TypeError")
        ELSE IF body.error = "string" THEN Raised("AttributeError")
        ELSE APIError(status, ErrorMsg(status, body), body)
    ELSE Returned(body, "upstream", IF stored THEN t ELSE -1)

\* A successful response of a cache-eligible GET is stored.
Stores(r, status, body) ==
    /\ body.kind \in {"object", "null"}
    /\ status < 400
    /\ CacheEligible(r)

\* The envelope a Service operation returns: keys are the members of the
\* dict, errkeys those of its "error" member; parts are the members of the
\* dashboard's data.
NoEnv == [kind |-> "none", keys |-> {}, errkeys |-> {}, success |-> FALSE,
          data |-> NullBody, parts |-> << >>, code |-> 0, message |-> "",
          details |-> EmptyObj]

\* A caller: its position, the client it calls, the call and its result; sent
\* counts the HTTP requests and acq the calls of acquire made from line 107
\* in this call; ahead are the callers that were already waiting when this
\* one began to wait (not program state).  svc is the Service operation in
\* progress, started its Repository calls so far, parts their results, env
\* the envelope returned; args are the arguments of the Repository method
\* being called.
IdleTask == [pc |-> "idle", client |-> 1, req |-> NoReq, wakeAt |-> 0, sent |-> 0,
             acq |-> 0, ahead |-> {}, res |-> NoRes,
             svc |-> "-", started |-> << >>, args |-> DefaultArgs,
             parts |-> << >>, env |-> NoEnv]

\* The record of a step: the caller, the operation, its outcome, and for a
\* response the status and body received, for clear_cache the number of
\* entries dropped (not program state).
Event(t, op, out) ==
    [task |-> t, op |-> op, out |-> out, n |-> 0, status |-> 0, body |-> NullBody]

\* ------------------------------------------------------------- initial state
\* One client object, constructed directly or injected into the Repository:
\* its session is None until __aenter__ has run.  The configuration is read
\* from the environment once, at import.
Init ==
    /\ now = 0
    /\ config \in Configs
    /\ session \in { [c \in ClientIds |-> IF c = 1 THEN s ELSE "unborn"] : s \in {"none", "open"} }
    /\ limiter = [c \in ClientIds |-> [max_requests |-> MaxRequests]]
    /\ requests = [c \in ClientIds |-> << >>]
    /\ cache = [c \in ClientIds |-> EmptyCache]
    /\ repo = 1
    /\ task = [t \in Tasks |-> IdleTask]
    /\ ev = Event(0, "init", "-")

Done(t, res) == [task EXCEPT ![t].pc = "done", ![t].res = res]

\* ------------------------------------------------------------- _make_request
\* Lines 93-94: raise Cafe24APIError(401, ...) when the configuration is invalid.
RaiseConfigError(t, r) ==
    /\ task' = [task EXCEPT ![t].pc = "done", ![t].req = r, ![t].sent = 0,
                            ![t].acq = 0,
                            ![t].res = APIError(401, "invalid configuration", EmptyObj)]
    /\ ev' = Event(t, "execute", "config_error")
    /\ UNCHANGED <<now, config, session, requests, cache, repo, limiter>>

\* Mutant: the rate limiter is passed before the cached payload is returned.
ReturnCached_AfterAcquire(t, r) ==
    /\ task' = [task EXCEPT ![t].pc = "done", ![t].req = r, ![t].sent = 0,
                            ![t].acq = 1,
                            ![t].res = Returned(cache[task[t].client][KeyOf(r)].data,
                                                "cache", -1)]
    /\ requests' = [requests EXCEPT ![task[t].client] = Append(Prune(@, now), now)]
    /\ ev' = Event(t, "execute", "hit")
    /\ UNCHANGED <<now, config, session, cache, repo, limiter>>

\* Lines 102-104: return cached_data["data"].
ReturnCached(t, r) ==
    /\ task' = [task EXCEPT ![t].pc = "done", ![t].req = r, ![t].sent = 0,
                            ![t].acq = 0,
                            ![t].res = Returned(cache[task[t].client][KeyOf(r)].data,
                                                "cache", -1)]
    /\ ev' = Event(t, "execute", "hit")
    /\ UNCHANGED <<now, config, session, requests, cache, repo, limiter>>

\* The counters of a call start at zero when the call starts (op "execute").
SentSoFar(t, op) == IF op = "execute" THEN 0 ELSE task[t].sent
AcqSoFar(t, op) == IF op = "execute" THEN 0 ELSE task[t].acq
\* asyncio.sleep is over (op "wake"): the same call of acquire goes on.
AcqNow(t, op) == AcqSoFar(t, op) + (IF op = "wake" THEN 0 ELSE 1)

\* Caller t is admitted and ends up as rec: no caller still has t ahead of it.
Admit(t, rec) ==
    [u \in Tasks |-> IF u = t THEN rec ELSE [task[u] EXCEPT !.ahead = @ \ {t}]]

\* Lines 109-115 after the limiter admitted the call: self.session.request(...).
\* With session None the attribute access raises AttributeError; a closed
\* aiohttp session raises RuntimeError; neither is caught by the except
\* clauses.  On an open session the request goes out and the call awaits the
\* response.
SendRequest(t, r, op) ==
    LET s == session[task[t].client] IN
    IF s = "open"
    THEN /\ task' = Admit(t, [task[t] EXCEPT !.pc = "inflight", !.req = r,
                                             !.sent = SentSoFar(t, op) + 1,
                                             !.acq = AcqNow(t, op),
                                             !.ahead = {}, !.res = NoRes])
         /\ ev' = Event(t, op, "sent")
    ELSE /\ task' = Admit(t, [task[t] EXCEPT !.pc = "done", !.req = r,
                                             !.sent = SentSoFar(t, op),
                                             !.acq = AcqNow(t, op),
                                             !.ahead = {},
                                             !.res = Raised(IF s = "none"
                                                            THEN "AttributeError"
                                                            ELSE "RuntimeError")])
         /\ ev' = Event(t, op, "no_session")

\* RateLimiter.acquire followed by the request: prune, then raise IndexError
\* on self.requests[0] of an empty list, or suspend in
\* asyncio.sleep(sleep_time), or append now and go on.
AcquireAndSend(t, r, op) ==
    LET c == task[t].client
        max == limiter[c].max_requests
        pruned == Prune(requests[c], now)
    IN  /\ IF IndexFails(pruned, max)
           THEN /\ requests' = [requests EXCEPT ![c] = pruned]
                /\ task' = [task EXCEPT ![t].pc = "done", ![t].req = r,
                                        ![t].sent = SentSoFar(t, op),
                                        ![t].acq = AcqNow(t, op),
                                        ![t].res = Raised("IndexError")]
                /\ ev' = Event(t, op, "index_error")
           ELSE IF MustSleep(pruned, now, max)
           THEN /\ requests' = [requests EXCEPT ![c] = Kept(pruned, now)]
                /\ task' = [task EXCEPT ![t].pc = "sleeping", ![t].req = r,
                                        ![t].sent = SentSoFar(t, op),
                                        ![t].acq = AcqNow(t, op),
                                        ![t].wakeAt = now + SleepTime(pruned, now),
                                        ![t].ahead =
                                            IF op = "wake" THEN @
                                            ELSE { u \in Tasks \ {t} :
                                                     /\ task[u].pc = "sleeping"
                                                     /\ task[u].client = c },
                                        ![t].res = NoRes]
                /\ ev' = Event(t, op, "sleep")
           ELSE /\ requests' = [requests EXCEPT ![c] = Append(pruned, now)]
                /\ SendRequest(t, r, op)
        /\ UNCHANGED <<now, config, session, cache, repo, limiter>>

\* Mutant: the cache is consulted before the configuration is validated.
MakeRequest_LookupFirst(t, r) ==
    /\ task[t].pc \in {"idle", "done"}
    /\ IF CacheHit(task[t].client, r) THEN ReturnCached(t, r)
       ELSE IF ~ValidateConfig(config) THEN RaiseConfigError(t, r)
       ELSE AcquireAndSend(t, r, "execute")

\* Lines 93-107 up to the first suspension: validate, look up, acquire.
BeginRequest(t, r) ==
    IF ~ValidateConfig(config) THEN RaiseConfigError(t, r)
    ELSE IF CacheHit(task[t].client, r) THEN ReturnCached(t, r)
    ELSE AcquireAndSend(t, r, "execute")

\* A caller starts execute(method, endpoint, params, use_cache) on the client.
MakeRequest(t, r) ==
    /\ task[t].pc \in {"idle", "done"}
    /\ BeginRequest(t, r)

\* Mutant: the caller polls instead of sleeping for sleep_time.
Wake_Early(t) ==
    /\ task[t].pc = "sleeping"
    /\ AcquireAndSend(t, task[t].req, "wake")

\* Mutant: after its sleep the caller is admitted without evaluating the
\* list again.
Wake_NoReevaluate(t) ==
    /\ task[t].pc = "sleeping"
    /\ now >= task[t].wakeAt
    /\ requests' = [requests EXCEPT ![task[t].client] = Append(Prune(@, now), now)]
    /\ SendRequest(t, task[t].req, "wake")
    /\ UNCHANGED <<now, config, session, cache, repo, limiter>>

\* asyncio.sleep is over: return await self.acquire().
Wake(t) ==
    /\ task[t].pc = "sleeping"
    /\ now >= task[t].wakeAt
    /\ AcquireAndSend(t, task[t].req, "wake")

\* Mutant: a failed exchange is attempted again.
TransportFailure_Retry(t, failure) ==
    /\ task[t].pc = "inflight"
    /\ AcquireAndSend(t, task[t].req, "retry")

\* Mutant: a failed exchange falls back on the entry of the key, expired or
\* not.
TransportFailure_ServesStale(t, failure) ==
    /\ task[t].pc = "inflight"
    /\ LET e == cache[task[t].client][KeyOf(task[t].req)]
       IN  task' = Done(t, IF CacheEligible(task[t].req) /\ e.present
                           THEN Returned(e.data, "cache", -1)
                           ELSE APIError(500, "network error", EmptyObj))
    /\ ev' = Event(t, "respond", failure)
    /\ UNCHANGED <<now, config, session, requests, cache, repo, limiter>>

\* Mutant: a failed exchange gives its place in the window back.
TransportFailure_ReleasesSlot(t, failure) ==
    /\ task[t].pc = "inflight"
    /\ task' = Done(t, IF failure = "client_error"
                       THEN APIError(500, "network error", EmptyObj)
                       ELSE Raised("TimeoutError"))
    /\ requests' = [requests EXCEPT ![task[t].client] =
                        SubSeq(@, 1, Len(@) - 1)]
    /\ ev' = Event(t, "respond", failure)
    /\ UNCHANGED <<now, config, session, cache, repo, limiter>>

\* The exchange fails in the transport: aiohttp.ClientError is turned into
\* status 500; a timeout is asyncio.TimeoutError, which is not caught.
TransportFailure(t, failure) ==
    /\ task[t].pc = "inflight"
    /\ task' = Done(t, IF failure = "client_error"
                       THEN APIError(500, "network error", EmptyObj)
                       ELSE Raised("TimeoutError"))
    /\ ev' = Event(t, "respond", failure)
    /\ UNCHANGED <<now, config, session, requests, cache, repo, limiter>>

\* Mutant: a successful write drops the entries of the client.
Respond_InvalidatesOnWrite(t, status, body) ==
    /\ task[t].pc = "inflight"
    /\ LET c == task[t].client
           r == task[t].req
           stored == Stores(r, status, body)
       IN  /\ cache' = IF stored
                       THEN [cache EXCEPT ![c][KeyOf(r)] = Entry(body, now, t, r, status)]
                       ELSE IF r.method # "GET" /\ status < 400
                       THEN [cache EXCEPT ![c] = Cleared(@)]
                       ELSE cache
           /\ task' = Done(t, ResponseResult(status, body, stored, now))
           /\ ev' = [Event(t, "respond", IF stored THEN "stored" ELSE "passed")
                       EXCEPT !.status = status, !.body = body]
    /\ UNCHANGED <<now, config, session, requests, repo, limiter>>

\* The response arrives: lines 117-139.
Respond(t, status, body) ==
    /\ task[t].pc = "inflight"
    /\ LET c == task[t].client
           r == task[t].req
           stored == Stores(r, status, body)
       IN  /\ cache' = IF stored
                       THEN [cache EXCEPT ![c][KeyOf(r)] = Entry(body, now, t, r, status)]
                       ELSE cache
           /\ task' = Done(t, ResponseResult(status, body, stored, now))
           /\ ev' = [Event(t, "respond", IF stored THEN "stored" ELSE "passed")
                       EXCEPT !.status = status, !.body = body]
    /\ UNCHANGED <<now, config, session, requests, repo, limiter>>

\* Mutant: clear_cache fetches the client first, creating one when the
\* Repository has none.
ClearCache_CreatesClient ==
    /\ repo = NoClient => \E c \in ClientIds : session[c] = "unborn"
    /\ LET new == CHOOSE c \in ClientIds : session[c] = "unborn"
           target == IF repo = NoClient THEN new ELSE repo
       IN  /\ repo' = target
           /\ session' = IF repo = NoClient THEN [session EXCEPT ![new] = "open"]
                                            ELSE session
           /\ cache' = [cache EXCEPT ![target] = Cleared(@)]
    /\ ev' = Event(0, "clear_cache", "-")
    /\ UNCHANGED <<now, config, requests, limiter, task>>

\* Cafe24Repository.clear_cache -> Cafe24APIClient.clear_cache.
ClearCache ==
    /\ cache' = IF repo # NoClient THEN [cache EXCEPT ![repo] = Cleared(cache[repo])]
                                   ELSE cache
    /\ task' = [t \in Tasks |->
                  IF repo # NoClient /\ task[t].client = repo
                  THEN [task[t] EXCEPT !.res.storedAt = -1] ELSE task[t]]
    /\ ev' = [Event(0, "clear_cache", "-") EXCEPT
                 !.n = IF repo = NoClient THEN 0
                       ELSE Cardinality({k \in DOMAIN cache[repo] : cache[repo][k].present})]
    /\ UNCHANGED <<now, config, session, requests, repo, limiter>>

\* Time passes.
Tick ==
    /\ now < MaxTime
    /\ now' = now + 1
    /\ task' = [t \in Tasks |->
                  IF task[t].res.storedAt >= 0 /\ now' - task[t].res.storedAt >= CacheTtl
                  THEN [task[t] EXCEPT !.res.storedAt = -1] ELSE task[t]]
    /\ ev' = Event(0, "tick", "-")
    /\ UNCHANGED <<config, session, requests, cache, repo, limiter>>

Max(a, b) == IF a >= b THEN a ELSE b

\* Time passes once the clock reads MaxTime: the origin of the clock moves
\* by one instead, so every recorded time is one less and every difference
\* now - t is what it would be one time unit later.  A timestamp that has
\* left the window, an entry past its TTL and a wake-up time that has come
\* stay so for ever and are not moved further.
Shift ==
    /\ now = MaxTime
    /\ requests' = [c \in ClientIds |->
                       [i \in 1..Len(requests[c]) |->
                           Max(requests[c][i] - 1, now - TimeWindow)]]
    /\ cache' = [c \in ClientIds |->
                    [k \in CacheKeys |->
                        IF cache[c][k].present
                        THEN [cache[c][k] EXCEPT !.timestamp = Max(@ - 1, now - CacheTtl)]
                        ELSE cache[c][k]]]
    /\ task' = [t \in Tasks |->
                  [task[t] EXCEPT
                     !.wakeAt = IF task[t].pc = "sleeping" THEN Max(@ - 1, 0) ELSE @,
                     !.res.storedAt = IF @ < 0 \/ now - (@ - 1) >= CacheTtl
                                      THEN -1 ELSE @ - 1]]
    /\ ev' = Event(0, "tick", "shift")
    /\ UNCHANGED <<now, config, session, repo, limiter>>

\* The configuration object is a module-level dataclass that is not frozen:
\* code outside the client can assign its fields between two calls.
SetConfig(cfg) ==
    /\ cfg # config
    /\ config' = cfg
    /\ ev' = Event(0, "set_config", "-")
    /\ UNCHANGED <<now, session, requests, cache, repo, limiter, task>>

\* ------------------------------------------------------------- repository
\* API_ENDPOINTS: the keys each resource group has.
API_ENDPOINTS ==
    [products |-> {"list", "detail", "create", "update", "delete", "variants",
                   "options", "images"},
     orders |-> {"list", "detail", "update", "cancel", "exchange", "return",
                 "items", "receivers"},
     customers |-> {"list", "detail", "create", "update", "delete", "groups",
                    "points"},
     categories |-> {"list", "detail", "create", "update", "delete"},
     statistics |-> {"hourlysales", "productsales", "salesvolume"}]

\* The group and key a Repository method looks up in API_ENDPOINTS.
EndpointOf(method) ==
    CASE method = "get_products" -> <<"products", "list">>
      [] method = "create_product" -> <<"products", "create">>
      [] method = "get_orders" -> <<"orders", "list">>
      [] method = "get_customers" -> <<"customers", "list">>
      [] method \in {"get_categories", "health_check"} -> <<"categories", "list">>
      [] method = "get_sales_statistics" -> <<"statistics", "sales">>
      [] method = "get_visitor_statistics" -> <<"statistics", "visitors">>

\* API_ENDPOINTS[group][key] raises KeyError.
KeyFails(method) ==
    EndpointOf(method)[2] \notin API_ENDPOINTS[EndpointOf(method)[1]]

\* The list methods, the optional filters of each in the order of its if
\* statements, and its URL: "/products" is u1, "/orders" u2, "/customers"
\* u3 and "/categories" u4.
ListMethods == {"get_products", "get_orders", "get_customers"}
Filters(method) ==
    CASE method = "get_products" -> <<"category_no", "product_name">>
      [] method = "get_orders" -> <<"start_date", "end_date", "order_status">>
      [] method = "get_customers" -> <<"member_id", "email">>
ListUrl(method) ==
    CASE method = "get_products" -> "u1"
      [] method = "get_orders" -> "u2"
      [] method = "get_customers" -> "u3"

\* params = {"limit": limit, "offset": offset}, then for each filter
\* if <filter>: params[<filter>] = <filter>.
ListParams(method, args) ==
    LET F == Filters(method)
    IN  Dict(<< <<"limit", args["limit"]>>, <<"offset", args["offset"]>> >>
             \o SelectSeq([i \in 1..Len(F) |-> <<F[i], args[F[i]]>>],
                          LAMBDA pair : PyTruthy(pair[2])))

\* The call a Repository method passes to client._make_request.
RepoRequest(method, args) ==
    CASE method \in ListMethods ->
           [method |-> "GET", url |-> ListUrl(method),
            params |-> ListParams(method, args), use_cache |-> TRUE]
      [] method = "create_product" ->
           [method |-> "POST", url |-> "u1", params |-> NoParams, use_cache |-> TRUE]
      [] method \in {"get_categories", "health_check"} ->
           [method |-> "GET", url |-> "u4", params |-> NoParams, use_cache |-> TRUE]

\* ------------------------------------------------------------- service
\* Service operations that wrap one Repository method.
WrappedMethod(op) ==
    CASE op = "get_products_list" -> "get_products"
      [] op = "create_product" -> "create_product"
      [] op = "get_orders_list" -> "get_orders"
      [] op = "get_sales_statistics" -> "get_sales_statistics"

\* The operations whose message is built with result.get(...).
ListOps == {"get_products_list", "get_orders_list"}
SingleOps == ListOps \cup {"create_product", "get_sales_statistics"}

\* get_dashboard_summary, lines 431-434: the Repository methods in the order
\* of the awaits.
DashboardCalls ==
    <<"get_orders", "get_sales_statistics", "get_visitor_statistics", "get_products">>

FirstMethod(op) ==
    IF op = "get_dashboard_summary" THEN DashboardCalls[1] ELSE WrappedMethod(op)

\* The arguments a Service operation, called with its defaults, passes to
\* the Repository method: the dashboard asks for the orders of one day with
\* get_orders(limit=100, start_date=date, end_date=date).
ServiceArgs(op, method) ==
    IF op = "get_dashboard_summary" /\ method = "get_orders"
    THEN [DefaultArgs EXCEPT !["limit"] = PyInt("100"), !["start_date"] = PyStr("d"),
                             !["end_date"] = PyStr("d")]
    ELSE DefaultArgs

\* str(error) in the message of an exception that is no Cafe24APIError.
UnexpectedMsg(kind) ==
    CASE kind = "KeyError" -> "unexpected error: KeyError"
      [] kind = "AttributeError" -> "unexpected error: AttributeError"
      [] kind = "TypeError" -> "unexpected error: TypeError"
      [] kind = "TimeoutError" -> "unexpected error: TimeoutError"
      [] kind = "RuntimeError" -> "unexpected error: RuntimeError"
      [] kind = "IndexError" -> "unexpected error: IndexError"

\* Mutant: an exception that is no Cafe24APIError is raised again.
HandleApiError_OnlyAPIError(res) ==
    IF res.kind = "APIError"
    THEN [NoEnv EXCEPT !.kind = "error", !.keys = {"success", "error"},
                       !.errkeys = {"code", "message", "details"},
                       !.code = res.status, !.message = res.message,
                       !.details = res.details]
    ELSE [NoEnv EXCEPT !.kind = "raised"]

\* Mutant: every failure is reported with code 500.
HandleApiError_Always500(res) ==
    [NoEnv EXCEPT !.kind = "error", !.keys = {"success", "error"},
                  !.errkeys = {"code", "message", "details"},
                  !.code = 500,
                  !.message = IF res.kind = "APIError" THEN res.message
                              ELSE UnexpectedMsg(res.kind),
                  !.details = IF res.kind = "APIError" THEN res.details ELSE EmptyObj]

\* _handle_api_error, lines 24-43.
HandleApiError(res) ==
    IF res.kind = "APIError"
    THEN [NoEnv EXCEPT !.kind = "error", !.keys = {"success", "error"},
                       !.errkeys = {"code", "message", "details"},
                       !.code = res.status, !.message = res.message,
                       !.details = res.details]
    ELSE [NoEnv EXCEPT !.kind = "error", !.keys = {"success", "error"},
                       !.errkeys = {"code", "message", "details"},
                       !.code = 500, !.message = UnexpectedMsg(res.kind),
                       !.details = EmptyObj]

\* {"success": True, "data": ..., "message": ...}
Success(data, parts, message) ==
    [NoEnv EXCEPT !.kind = "ok", !.keys = {"success", "data", "message"},
                  !.success = TRUE, !.data = data, !.parts = parts,
                  !.message = message]

\* body.get(key, []): the member's value.
Member(body) == [body EXCEPT !.kind = "member"]

\* What the data of a successful clear_cache is: {"cache_cleared": True}.
CacheClearedData == Obj("cache_cleared")
\* What Repository.clear_cache returns: None.
RepoNone == NullBody

\* Mutant: the failure of a sub-call is reported together with the results
\* of the sub-calls that succeeded.
FailureEnvelope_Partial(res, parts) ==
    [HandleApiError(res) EXCEPT !.keys = @ \cup {"data"}, !.parts = parts]

\* except Exception as e: return await self._handle_api_error(e)
FailureEnvelope(res, parts) == HandleApiError(res)

\* Lines 436-447 and the return statements of the wrapping operations, with
\* the results the Repository calls returned: result.get on a result that is
\* no dict raises AttributeError inside the try.
SuccessEnvelope(op, results) ==
    IF op = "get_dashboard_summary"
    THEN IF results[1].kind # "object" \/ results[4].kind # "object"
         THEN FailureEnvelope(Raised("AttributeError"), results)
         ELSE Success(EmptyObj,
                      <<Member(results[1]), results[2], results[3], Member(results[4])>>,
                      "dashboard summary done")
    ELSE IF op \in ListOps /\ results[1].kind # "object"
         THEN FailureEnvelope(Raised("AttributeError"), results)
         ELSE Success(results[1], << >>, "done")

\* Mutant: the operation goes on after a failed sub-call.
Aborts_Never(res) == FALSE

\* An exception leaves the try block.
Aborts(res) == res.kind # "ok"

\* A Service operation starts: the body of the method up to its first
\* await of a Repository method.
ServiceCall(t, op) ==
    /\ task[t].pc \in {"idle", "returned"}
    /\ task' = [task EXCEPT ![t] = [IdleTask EXCEPT !.pc = "calling",
                                                   !.client = task[t].client,
                                                   !.svc = op,
                                                   !.started = <<FirstMethod(op)>>,
                                                   !.args = ServiceArgs(op, FirstMethod(op))]]
    /\ ev' = Event(t, "service_call", op)
    /\ UNCHANGED <<now, config, session, requests, cache, repo, limiter>>

\* The next client the Repository creates.
FreshClient ==
    CHOOSE c \in ClientIds :
        /\ session[c] = "unborn"
        /\ \A d \in ClientIds : session[d] = "unborn" => c <= d

\* Repository._get_client, lines 24-29: create the client and enter it (a
\* new session, an empty cache, a limiter of rate_limit_per_minute) when the
\* Repository has none.
GetClient(t) ==
    /\ task[t].pc = "calling"
    /\ repo = NoClient => \E c \in ClientIds : session[c] = "unborn"
    /\ IF repo = NoClient
       THEN /\ repo' = FreshClient
            /\ session' = [session EXCEPT ![FreshClient] = "open"]
            /\ limiter' = [limiter EXCEPT ![FreshClient] = [max_requests |-> MaxRequests]]
            /\ requests' = [requests EXCEPT ![FreshClient] = << >>]
            /\ cache' = [cache EXCEPT ![FreshClient] = Cleared(@)]
       ELSE UNCHANGED <<repo, session, limiter, requests, cache>>
    /\ task' = [task EXCEPT ![t].pc = "ready", ![t].client = repo']
    /\ ev' = Event(t, "get_client", IF repo = NoClient THEN "created" ELSE "reused")
    /\ UNCHANGED <<now, config>>

\* The Repository method goes on: the endpoint lookup, which raises KeyError
\* for a missing key, then client._make_request.
RepoCall(t) ==
    /\ task[t].pc = "ready"
    /\ LET method == task[t].started[Len(task[t].started)]
       IN  IF KeyFails(method)
           THEN /\ task' = [task EXCEPT ![t].pc = "done", ![t].req = NoReq,
                                        ![t].sent = 0, ![t].acq = 0,
                                        ![t].res = Raised("KeyError")]
                /\ ev' = Event(t, "repo_call", "key_error")
                /\ UNCHANGED <<now, config, session, requests, cache, repo, limiter>>
           ELSE BeginRequest(t, RepoRequest(method, task[t].args))

\* The awaited Repository method has returned or raised: the operation goes
\* on to its next await, or returns its envelope.
ServiceReturn(t) ==
    /\ task[t].pc = "done"
    /\ task[t].svc # "-"
    /\ LET op == task[t].svc
           res == task[t].res
           results == Append(task[t].parts, res.data)
           total == IF op = "get_dashboard_summary" THEN Len(DashboardCalls) ELSE 1
       IN  IF Aborts(res)
           THEN /\ task' = [task EXCEPT ![t].pc = "returned",
                                        ![t].env = FailureEnvelope(res, task[t].parts)]
                /\ ev' = Event(t, "service_return", "error")
           ELSE IF Len(results) < total
           THEN /\ task' = [task EXCEPT ![t].pc = "calling",
                                        ![t].parts = results,
                                        ![t].started =
                                            Append(@, DashboardCalls[Len(results) + 1]),
                                        ![t].args =
                                            ServiceArgs(op, DashboardCalls[Len(results) + 1])]
                /\ ev' = Event(t, "service_return", "next")
           ELSE /\ task' = [task EXCEPT ![t].pc = "returned",
                                        ![t].parts = results,
                                        ![t].env = SuccessEnvelope(op, results)]
                /\ ev' = Event(t, "service_return", "envelope")
    /\ UNCHANGED <<now, config, session, requests, cache, repo, limiter>>

\* Service.clear_cache, lines 481-488: Repository.clear_cache, then the
\* envelope.
ServiceClearCache(t) ==
    /\ task[t].pc \in {"idle", "returned"}
    /\ cache' = IF repo # NoClient THEN [cache EXCEPT ![repo] = Cleared(cache[repo])]
                                   ELSE cache
    /\ task' = [u \in Tasks |->
                  IF u = t
                  THEN [IdleTask EXCEPT !.pc = "returned", !.client = task[t].client,
                                        !.svc = "clear_cache",
                                        !.env = Success(CacheClearedData, << >>,
                                                        "cache cleared")]
                  ELSE IF repo # NoClient /\ task[u].client = repo
                  THEN [task[u] EXCEPT !.res.storedAt = -1] ELSE task[u]]
    /\ ev' = [Event(t, "service_clear_cache", "-") EXCEPT
                 !.n = IF repo = NoClient THEN 0
                       ELSE Cardinality({k \in DOMAIN cache[repo] : cache[repo][k].present})]
    /\ UNCHANGED <<now, config, session, requests, repo, limiter>>


\* ------------------------------------------------------------- repository calls
\* A caller of the Repository itself starts method(args): the method up to
\* its await of _get_client.
RepoOp(t, method, args) ==
    /\ task[t].pc \in {"idle", "returned"}
    /\ task' = [task EXCEPT ![t] = [IdleTask EXCEPT !.pc = "calling",
                                                   !.client = task[t].client,
                                                   !.started = <<method>>,
                                                   !.args = args]]
    /\ ev' = Event(t, "repo_op", method)
    /\ UNCHANGED <<now, config, session, requests, cache, repo, limiter>>

\* True and False.
BoolBody(b) ==
    [kind |-> "bool", error |-> "absent", message |-> "absent",
     data |-> IF b THEN "True" ELSE "False"]

\* Mutant: no method catches anything.
RepoResult_PassThrough(method, res) == res

\* What the Repository method gives its caller when client._make_request
\* ended with res: the same, returned or raised; health_check (lines 193-199)
\* returns True, and False when a Cafe24APIError was raised.
RepoResult(method, res) ==
    IF method # "health_check" THEN res
    ELSE IF res.kind = "ok" THEN Returned(BoolBody(TRUE), "-", -1)
    ELSE IF res.kind = "APIError" THEN Returned(BoolBody(FALSE), "-", -1)
    ELSE res

\* client._make_request has returned or raised in a method called on the
\* Repository itself: the method ends.
RepoReturn(t) ==
    /\ task[t].pc = "done"
    /\ task[t].svc = "-"
    /\ task[t].started # << >>
    /\ task' = [task EXCEPT ![t].pc = "returned",
                            ![t].res = RepoResult(task[t].started[1], task[t].res)]
    /\ ev' = Event(t, "repo_return", task[t].started[1])
    /\ UNCHANGED <<now, config, session, requests, cache, repo, limiter>>

\* client.__aexit__: if self.session: await self.session.close().
Exited(s) == IF s = "open" THEN "closed" ELSE s

\* Repository.close, lines 208-209: with a client, await its __aexit__;
\* without one, return.
Close(t) ==
    /\ task[t].pc \in {"idle", "returned"}
    /\ IF repo = NoClient
       THEN /\ task' = [task EXCEPT ![t] = [IdleTask EXCEPT !.pc = "returned",
                                                           !.client = task[t].client,
                                                           !.started = <<"close">>]]
            /\ ev' = Event(t, "close", "no_client")
            /\ UNCHANGED session
       ELSE /\ task' = [task EXCEPT ![t] = [IdleTask EXCEPT !.pc = "closing",
                                                           !.client = repo,
                                                           !.started = <<"close">>]]
            /\ session' = [session EXCEPT ![repo] = Exited(@)]
            /\ ev' = Event(t, "close", "exit")
    /\ UNCHANGED <<now, config, requests, cache, repo, limiter>>

\* Mutant: the reference to the closed client is kept.
Released_Kept == repo

\* Line 210: self.client = None.
Released == NoClient

\* Repository.close after the await: the reference is cleared.
CloseDone(t) ==
    /\ task[t].pc = "closing"
    /\ repo' = Released
    /\ task' = [task EXCEPT ![t].pc = "returned"]
    /\ ev' = Event(t, "close", "done")
    /\ UNCHANGED <<now, config, session, requests, cache, limiter>>

\* ------------------------------------------------------------- MCP tools
\* The last thing the caller did was a tool invocation that has returned.
ToolReturned(t) == task[t].pc = "returned" /\ task[t].started = <<"close">>

\* An MCP tool is invoked: the try block awaits the one Service operation
\* of the tool.
ToolInvoke(t, op) ==
    /\ task[t].pc = "idle" \/ ToolReturned(t)
    /\ ServiceCall(t, op)

\* Mutant: the service is closed only after a successful call.
ToolFinally_OnlyOnSuccess(t) ==
    /\ task[t].pc = "returned"
    /\ task[t].svc # "-"
    /\ IF task[t].env.success THEN Close(t)
       ELSE /\ task' = [task EXCEPT ![t] = [IdleTask EXCEPT !.pc = "returned",
                                                           !.client = task[t].client,
                                                           !.started = <<"close">>]]
            /\ ev' = Event(t, "close", "skipped")
            /\ UNCHANGED <<now, config, session, requests, cache, repo, limiter>>

\* The Service operation has returned its envelope (it catches every
\* Exception itself): the result is serialized, and the finally clause
\* awaits cafe24_service.close(), that is Repository.close.  The tool
\* returns when close has returned.
ToolFinally(t) ==
    /\ task[t].pc = "returned"
    /\ task[t].svc # "-"
    /\ Close(t)

\* ------------------------------------------------------------- specifications
\* What the upstream API answers with: <<status, body>>.
AllStatuses == {200, 399, 400, 401, 403, 404, 409, 418, 422, 429, 500, 503, 504}
AllBodies == {Obj("P1"), EmptyObj, ErrMsgBody, ErrNoMsgBody, ErrStrBody, NullBody,
              BadJsonBody, NotJsonBody}
AllResponses == AllStatuses \X AllBodies
Failures == {"client_error", "timeout"}

\* The steps of the callers TT, which issue the calls RR; the exchanges fail
\* with one of FF or are answered with one of the responses AA.
ClientNext(TT, RR, FF, AA) ==
    \/ \E t \in TT, r \in RR : MakeRequest(t, r)
    \/ \E t \in TT : Wake(t)
    \/ \E t \in TT, failure \in FF : TransportFailure(t, failure)
    \/ \E t \in TT, a \in AA : Respond(t, a[1], a[2])
    \/ ClearCache
    \/ Tick

\* Two concurrent callers on one URL, a cached GET and a POST, two payloads.
OneUrl == { r \in Requests : r.url = "u1" }
Next ==
    ClientNext(Tasks, { r \in OneUrl : r.use_cache }, {"client_error"},
               {<<200, Obj("P1")>>, <<200, Obj("P2")>>, <<404, ErrMsgBody>>})
Spec == Init /\ [][Next]_vars

\* Two concurrent callers reading two URLs through the cache.
NextKeys ==
    ClientNext(Tasks, { r \in Requests : CacheEligible(r) }, {"client_error"},
               {<<200, Obj("P1")>>})
SpecKeys == Init /\ [][NextKeys]_vars

\* One caller, every call, every failure, status and shape of body.
NextErr == ClientNext({1}, OneUrl, Failures, AllResponses)
SpecErr == Init /\ [][NextErr]_vars

\* One caller, with the configuration reassigned between calls.
NextConfig ==
    \/ ClientNext({1}, OneUrl, {"client_error"}, {<<200, Obj("P1")>>, <<404, ErrMsgBody>>})
    \/ \E cfg \in Configs : SetConfig(cfg)
SpecConfig == Init /\ [][NextConfig]_vars

ServiceOps == SingleOps \cup {"get_dashboard_summary"}
\* The calls the Service operations lead to.
ServiceRequests ==
    { RepoRequest(method, ServiceArgs(op, method)) :
        op \in ServiceOps, method \in {"get_products", "create_product", "get_orders"} }

\* The Service on the module-level Repository, which has no client until the
\* first call: one caller, every kind of operation, answer and failure.
InitService ==
    /\ now = 0
    /\ config \in Configs
    /\ session = [c \in ClientIds |-> "unborn"]
    /\ limiter = [c \in ClientIds |-> [max_requests |-> MaxRequests]]
    /\ requests = [c \in ClientIds |-> << >>]
    /\ cache = [c \in ClientIds |-> EmptyCacheOf(ServiceRequests)]
    /\ repo = NoClient
    /\ task = [t \in Tasks |-> [IdleTask EXCEPT !.client = NoClient]]
    /\ ev = Event(0, "init", "-")

ServiceResponses ==
    {<<200, Obj("P1")>>, <<200, NullBody>>, <<404, ErrMsgBody>>, <<500, NullBody>>}

NextService ==
    \/ \E op \in ServiceOps : ServiceCall(1, op)
    \/ GetClient(1)
    \/ RepoCall(1)
    \/ ServiceReturn(1)
    \/ ServiceClearCache(1)
    \/ Wake(1)
    \/ \E failure \in Failures : TransportFailure(1, failure)
    \/ \E a \in ServiceResponses : Respond(1, a[1], a[2])
    \/ Tick
SpecService == InitService /\ [][NextService]_vars

\* The rate limiter of one client with any max_requests from 0 and any
\* earlier timestamps in its list, two callers that call again and again,
\* and time that goes on for ever.
PriorTimes == (0 - TimeWindow)..0
PriorLists(max) ==
    { q \in UNION { [1..n -> PriorTimes] : n \in 0..max } :
        \A i \in 1..Len(q) : \A j \in i..Len(q) : q[i] <= q[j] }

InitLimiter ==
    /\ now = 0
    /\ config = ValidCfg
    /\ session = [c \in ClientIds |-> IF c = 1 THEN "open" ELSE "unborn"]
    /\ \E max \in 0..MaxRequests :
          /\ limiter = [c \in ClientIds |-> [max_requests |-> max]]
          /\ \E q \in PriorLists(max) :
                requests = [c \in ClientIds |-> IF c = 1 THEN q ELSE << >>]
    /\ cache = [c \in ClientIds |-> EmptyCache]
    /\ repo = 1
    /\ task = [t \in Tasks |-> IdleTask]
    /\ ev = Event(0, "init", "-")

NextLimiter ==
    \/ \E t \in Tasks :
          MakeRequest(t, [method |-> "GET", url |-> "u1", params |-> NoParams,
                          use_cache |-> FALSE])
    \/ \E t \in Tasks : Wake(t)
    \/ \E t \in Tasks : Respond(t, 200, Obj("P1"))
    \/ Tick
    \/ Shift
SpecLimiter == InitLimiter /\ [][NextLimiter]_vars

\* The same with the scheduling of the event loop: time goes on, and a
\* caller whose sleep is over is run.
SpecLimiterLive ==
    /\ SpecLimiter
    /\ WF_vars(Tick)
    /\ WF_vars(Shift)
    /\ \A t \in Tasks : WF_vars(Wake(t))

\* The module-level Repository used directly by one caller: list, statistics
\* and health-check calls, and close(); it has created no client yet and
\* creates at most as many as there are client ids.
RepoMethods == {"get_products", "get_sales_statistics", "health_check"}
RepoRequests == { RepoRequest(method, DefaultArgs) : method \in {"get_products", "health_check"} }
RepoResponses == {<<200, Obj("P1")>>, <<404, ErrMsgBody>>}

InitRepo ==
    /\ now = 0
    /\ config \in {ValidCfg, [ValidCfg EXCEPT !.mall_id = ""]}
    /\ session = [c \in ClientIds |-> "unborn"]
    /\ limiter = [c \in ClientIds |-> [max_requests |-> MaxRequests]]
    /\ requests = [c \in ClientIds |-> << >>]
    /\ cache = [c \in ClientIds |-> EmptyCacheOf(RepoRequests)]
    /\ repo = NoClient
    /\ task = [t \in Tasks |-> [IdleTask EXCEPT !.client = NoClient]]
    /\ ev = Event(0, "init", "-")

NextRepo ==
    \/ \E method \in RepoMethods : RepoOp(1, method, DefaultArgs)
    \/ GetClient(1)
    \/ RepoCall(1)
    \/ RepoReturn(1)
    \/ Close(1)
    \/ CloseDone(1)
    \/ Wake(1)
    \/ \E failure \in Failures : TransportFailure(1, failure)
    \/ \E a \in RepoResponses : Respond(1, a[1], a[2])
    \/ Tick
SpecRepo == InitRepo /\ [][NextRepo]_vars

\* The list methods of the Repository called with the arguments args, drawn
\* once: the filters of one method are each left out, given a falsy value
\* (0, the empty string) or given another value.  No time passes: a call
\* beyond the rate limit stays suspended.
FilterValues(name) ==
    IF name = "category_no" THEN {PyNone, PyInt("0"), PyInt("5")}
    ELSE {PyNone, PyStr(""), PyStr("x")}
FilterSet(method) == { Filters(method)[i] : i \in 1..Len(Filters(method)) }
ListArgs ==
    UNION { { [n \in ArgNames |-> IF n \in FilterSet(method) THEN f[n] ELSE DefaultArgs[n]] :
                f \in { g \in [FilterSet(method) -> {PyNone, PyInt("0"), PyInt("5"),
                                                     PyStr(""), PyStr("x")}] :
                          \A n \in FilterSet(method) : g[n] \in FilterValues(n) } } :
            method \in ListMethods }
ParamsRequests == { RepoRequest(method, a) : method \in ListMethods, a \in ListArgs }

InitParams ==
    /\ now = 0
    /\ config = ValidCfg
    /\ session = [c \in ClientIds |-> "unborn"]
    /\ limiter = [c \in ClientIds |-> [max_requests |-> MaxRequests]]
    /\ requests = [c \in ClientIds |-> << >>]
    /\ cache = [c \in ClientIds |-> EmptyCacheOf(ParamsRequests)]
    /\ repo = NoClient
    /\ \E a \in ListArgs :
          task = [t \in Tasks |-> [IdleTask EXCEPT !.client = NoClient, !.args = a]]
    /\ ev = Event(0, "init", "-")

NextParams ==
    \/ \E method \in ListMethods : RepoOp(1, method, task[1].args)
    \/ GetClient(1)
    \/ RepoCall(1)
    \/ RepoReturn(1)
    \/ Respond(1, 200, Obj("P1"))
SpecParams == InitParams /\ [][NextParams]_vars

\* One entered client asked by two callers for GETs that differ in the URL,
\* in the parameters, in the order the parameters were inserted in, and in
\* passing no parameters as None or as an empty dict.  No time passes: the
\* entries stay valid, and a call beyond the rate limit stays suspended.
KeyParams ==
    {NoParams,
     Dict(<< >>),
     Dict(<< <<"limit", PyInt("10")>>, <<"offset", PyInt("0")>> >>),
     Dict(<< <<"offset", PyInt("0")>>, <<"limit", PyInt("10")>> >>),
     Dict(<< <<"limit", PyStr("10")>>, <<"offset", PyInt("0")>> >>),
     Dict(<< <<"limit", PyInt("10")>> >>)}
KeyRequests ==
    { [method |-> "GET", url |-> "u1", params |-> q, use_cache |-> TRUE] : q \in KeyParams }
    \cup { [method |-> "GET", url |-> "u2", params |-> NoParams, use_cache |-> TRUE] }

InitCacheKey ==
    /\ now = 0
    /\ config = ValidCfg
    /\ session = [c \in ClientIds |-> IF c = 1 THEN "open" ELSE "unborn"]
    /\ limiter = [c \in ClientIds |-> [max_requests |-> MaxRequests]]
    /\ requests = [c \in ClientIds |-> << >>]
    /\ cache = [c \in ClientIds |-> EmptyCacheOf(KeyRequests)]
    /\ repo = 1
    /\ task = [t \in Tasks |-> IdleTask]
    /\ ev = Event(0, "init", "-")

NextCacheKey ==
    \/ \E t \in Tasks, r \in KeyRequests : MakeRequest(t, r)
    \/ \E t \in Tasks, body \in {Obj("P1"), Obj("P2")} : Respond(t, 200, body)
SpecCacheKey == InitCacheKey /\ [][NextCacheKey]_vars

\* One MCP client invokes tools one after the other on the module's
\* service: each invocation is the Service operation followed by close.  (No
\* invocation leads to more than MaxRequests requests on its client, so
\* none waits in the rate limiter.)
ToolOps == {"get_products_list", "get_dashboard_summary"}

NextTool ==
    \/ \E op \in ToolOps : ToolInvoke(1, op)
    \/ GetClient(1)
    \/ RepoCall(1)
    \/ ServiceReturn(1)
    \/ ToolFinally(1)
    \/ CloseDone(1)
    \/ \E failure \in Failures : TransportFailure(1, failure)
    \/ \E a \in RepoResponses : Respond(1, a[1], a[2])
    \/ Tick
InitTool ==
    /\ now = 0
    /\ config \in {ValidCfg, [ValidCfg EXCEPT !.mall_id = ""]}
    /\ session = [c \in ClientIds |-> "unborn"]
    /\ limiter = [c \in ClientIds |-> [max_requests |-> MaxRequests]]
    /\ requests = [c \in ClientIds |-> << >>]
    /\ cache = [c \in ClientIds |-> EmptyCacheOf(ServiceRequests)]
    /\ repo = NoClient
    /\ task = [t \in Tasks |-> [IdleTask EXCEPT !.client = NoClient]]
    /\ ev = Event(0, "init", "-")
SpecTool == InitTool /\ [][NextTool]_vars

\* Two tool invocations run concurrently on the module's service and
\* repository: the event loop interleaves them at every await.
NextTools ==
    \/ \E t \in Tasks : ToolInvoke(t, "get_products_list")
    \/ \E t \in Tasks : GetClient(t)
    \/ \E t \in Tasks : RepoCall(t)
    \/ \E t \in Tasks : ServiceReturn(t)
    \/ \E t \in Tasks : ToolFinally(t)
    \/ \E t \in Tasks : CloseDone(t)
    \/ \E t \in Tasks : TransportFailure(t, "client_error")
    \/ \E t \in Tasks : Respond(t, 200, Obj("P1"))
SpecTools == InitTool /\ [][NextTools]_vars

\* Two tasks call the Repository itself, its operations, clear_cache and
\* close in any order.
NextRepos ==
    \/ \E t \in Tasks : RepoOp(t, "get_products", DefaultArgs)
    \/ \E t \in Tasks : GetClient(t)
    \/ \E t \in Tasks : RepoCall(t)
    \/ \E t \in Tasks : RepoReturn(t)
    \/ \E t \in Tasks : Close(t)
    \/ \E t \in Tasks : CloseDone(t)
    \/ ClearCache
    \/ \E t \in Tasks : TransportFailure(t, "client_error")
    \/ \E t \in Tasks : Respond(t, 200, Obj("P1"))
SpecRepos == InitTool /\ [][NextRepos]_vars

\* ============================================================= claims
\* ------------------------------------------------------------- C1
\* C1: in every reachable state the number of recorded timestamps t of a
\* limiter with now - t < window is at most max_requests, and so is the number
\* of recorded timestamps inside any trailing window (T - window, T].
C1_WindowNeverExceeded ==
    \A c \in ClientIds :
        /\ Cardinality({ i \in 1..Len(requests[c]) : now - requests[c][i] < TimeWindow })
              <= MaxRequests
        /\ \A T \in 0..MaxTime :
              Cardinality({ i \in 1..Len(requests[c]) :
                              /\ T - requests[c][i] < TimeWindow
                              /\ requests[c][i] <= T }) <= MaxRequests

\* A caller that had to wait at capacity has been admitted on waking, while
\* the other caller waits at a full window.
C1_Witness ==
    /\ ev.op = "wake"
    /\ ev.out = "sent"
    /\ Cardinality({ i \in 1..Len(requests[1]) : now - requests[1][i] < TimeWindow })
          = MaxRequests
    /\ \E t \in Tasks : task[t].pc = "sleeping"

\* ------------------------------------------------------------- C2
\* In this step caller t starts a cache-enabled GET while caller a (possibly
\* t itself, with its previous call) holds the result of a cache-enabled GET
\* on the same client with the same method, URL and parameters, which went
\* upstream once, returned successfully and stored its body less than
\* cache_ttl_seconds ago, with no clear_cache since.
C2_SecondGet(a, t) ==
    /\ ev'.op = "execute"
    /\ ev'.task = t
    /\ task'[t].req.method = "GET"
    /\ task'[t].req.use_cache
    /\ task[a].pc = "done"
    /\ task[a].res.kind = "ok"
    /\ task[a].res.src = "upstream"
    /\ task[a].sent = 1
    /\ task[a].req = task'[t].req
    /\ task[a].client = task[t].client
    /\ task[a].res.storedAt >= 0
    /\ now - task[a].res.storedAt < CacheTtl

\* The entry the first call stored is still the one in the cache: no other
\* call has stored under that key since.
C2_EntryUntouched(a) ==
    LET e == cache[task[a].client][KeyOf(task[a].req)]
    IN  /\ e.present
        /\ e.by.task = a
        /\ e.timestamp = task[a].res.storedAt

\* The second call issues no HTTP request and returns the first call's payload.
C2_ServedFromFirst(a, t) ==
    /\ task'[t].pc = "done"
    /\ task'[t].res.kind = "ok"
    /\ task'[t].sent = 0
    /\ task'[t].res.data = task[a].res.data

C3_Lookup(t) ==
    /\ ev'.op = "execute"
    /\ ev'.task = t
    /\ ev'.out # "config_error"
    /\ task'[t].req.method = "GET"
    /\ task'[t].req.use_cache
    /\ cache[task[t].client][KeyOf(task'[t].req)].present

\* C3: a store puts the received body P under the key with the time of the
\* store; a lookup of an entry stored at s returns P unchanged at every time
\* with now - s < cache_ttl_seconds, and treats the entry as absent (the call
\* goes on to the rate limiter) at every time with now - s >= cache_ttl_seconds.
C3_CacheRoundTrip ==
    [][\A t \in Tasks :
          /\ (ev'.op = "respond" /\ ev'.task = t /\ ev'.out = "stored") =>
                LET e == cache'[task[t].client][KeyOf(task[t].req)]
                IN  /\ e.present
                    /\ e.data = ev'.body
                    /\ e.timestamp = now
                    /\ task'[t].res.data = ev'.body
          /\ C3_Lookup(t) =>
                LET e == cache[task[t].client][KeyOf(task'[t].req)]
                IN  IF now - e.timestamp < CacheTtl
                    THEN /\ ev'.out = "hit"
                         /\ task'[t].pc = "done"
                         /\ task'[t].res.kind = "ok"
                         /\ task'[t].res.data = e.data
                    ELSE /\ ev'.out \in {"sleep", "sent", "no_session"}
                         /\ task'[t].res.kind # "ok"]_vars

\* A lookup has just returned the stored payload from an entry one time unit
\* short of its expiry.
C3_Witness ==
    /\ ev.op = "execute"
    /\ ev.out = "hit"
    /\ LET e == cache[task[ev.task].client][KeyOf(task[ev.task].req)]
       IN  /\ e.present
           /\ now - e.timestamp = CacheTtl - 1
           /\ now > e.timestamp
           /\ task[ev.task].res.data = e.data

\* ------------------------------------------------------------- C4
\* C4: clear_cache can run in every state; right after it no key of the
\* Repository's client has an entry; and a cache-enabled GET whose key has no
\* entry is never served from the cache: it goes on to the rate limiter.
C4_ClearMakesAbsent ==
    [][/\ ENABLED ClearCache
       /\ ev'.op = "clear_cache" =>
             \A k \in CacheKeys : ~cache'[repo][k].present
       /\ \A t \in Tasks :
             ( /\ ev'.op = "execute"
               /\ ev'.task = t
               /\ ev'.out # "config_error"
               /\ task'[t].req.method = "GET"
               /\ task'[t].req.use_cache
               /\ ~cache[task[t].client][KeyOf(task'[t].req)].present )
             => /\ ev'.out \in {"sleep", "sent", "no_session"}
                /\ task'[t].res.kind # "ok"]_vars

\* clear_cache has just dropped the entries of two keys.
C4_Witness ==
    /\ ev.op = "clear_cache"
    /\ ev.n = 2
    /\ \A k \in CacheKeys : ~cache[repo][k].present

\* ------------------------------------------------------------- C5
\* Every cache entry was written by a GET call with use_cache true whose
\* response had a status below 400.
C5_OnlySuccessfulCachedGets ==
    \A c \in ClientIds, k \in CacheKeys :
        cache[c][k].present =>
            /\ cache[c][k].by.method = "GET"
            /\ cache[c][k].by.use_cache
            /\ cache[c][k].by.status < 400

\* C5: the entries' writers are as above in every reachable state, and no
\* step of a call with a non-GET method or with use_cache false changes the
\* cache or returns a cached payload.
C5_CacheOnlyForCachedGets ==
    [][/\ C5_OnlySuccessfulCachedGets'
       /\ \A t \in Tasks :
             ( /\ ev'.task = t
               /\ ev'.op \in {"execute", "wake", "respond"}
               /\ (task'[t].req.method # "GET" \/ ~task'[t].req.use_cache) )
             => /\ cache' = cache
                /\ ev'.out # "hit"
                /\ task'[t].res.src # "cache"]_vars

\* A POST has just returned successfully past an entry stored in the cache.
C5_Witness ==
    /\ ev.op = "respond"
    /\ ev.status = 200
    /\ task[ev.task].req.method = "POST"
    /\ task[ev.task].res.kind = "ok"
    /\ \E k \in CacheKeys : cache[task[ev.task].client][k].present

\* ------------------------------------------------------------- C6
\* C6: a call that finds a valid entry returns that entry's payload at once,
\* issues no HTTP request and leaves the rate limiter's list and the cache
\* as they were.
C6_HitBypassesLimiter ==
    [][\A t \in Tasks :
          (ev'.op = "execute" /\ ev'.task = t /\ ev'.out = "hit") =>
              /\ requests' = requests
              /\ cache' = cache
              /\ task'[t].pc = "done"
              /\ task'[t].sent = 0
              /\ task'[t].res.kind = "ok"
              /\ task'[t].res.data = cache[task[t].client][KeyOf(task'[t].req)].data]_vars

\* A call has just been served from the cache while the rate limiter's
\* window is full.
C6_Witness ==
    /\ ev.op = "execute"
    /\ ev.out = "hit"
    /\ Cardinality({ i \in 1..Len(requests[1]) : now - requests[1][i] < TimeWindow })
          = MaxRequests

\* ------------------------------------------------------------- C7
C7_Required == {"client_id", "client_secret", "access_token", "mall_id"}

\* C7: with a required credential field empty or whitespace-only, a call
\* fails at once with APIError 401, also when the cache holds a valid entry
\* for it: no HTTP request is issued, and the rate limiter, the cache and the
\* session are left as they were.
C7_InvalidConfigFailsFirst ==
    [][\A t \in Tasks :
          ( /\ ev'.op = "execute"
            /\ ev'.task = t
            /\ \E f \in C7_Required : config[f] \in {"", " "} )
          => /\ ev'.out = "config_error"
             /\ task'[t].pc = "done"
             /\ task'[t].res.kind = "APIError"
             /\ task'[t].res.status = 401
             /\ task'[t].sent = 0
             /\ requests' = requests
             /\ cache' = cache
             /\ session' = session]_vars

\* A cache-enabled GET has just failed with 401 on a whitespace-only or empty
\* field although the cache holds an entry for it that has not expired.
C7_Witness ==
    /\ ev.op = "execute"
    /\ ev.out = "config_error"
    /\ task[ev.task].res.status = 401
    /\ task[ev.task].req.method = "GET"
    /\ task[ev.task].req.use_cache
    /\ LET e == cache[task[ev.task].client][KeyOf(task[ev.task].req)]
       IN  e.present /\ now - e.timestamp < CacheTtl

\* ------------------------------------------------------------- C8
\* C8: every failing call fails with an APIError: with the upstream status
\* when a decoded response has status >= 400, and with status 500 on a
\* transport failure, a missing or unusable session and a decode failure.
C8_AlwaysAPIError ==
    \A t \in Tasks :
        (task[t].pc = "done" /\ task[t].res.kind # "ok") =>
            /\ task[t].res.kind = "APIError"
            /\ (ev.task = t /\ ev.out \in Failures \cup {"no_session"})
                  => task[t].res.status = 500
            /\ (ev.task = t /\ ev.op = "respond" /\ ev.body.kind \in {"bad_json", "not_json"})
                  => task[t].res.status = 500
            /\ (ev.task = t /\ ev.op = "respond" /\ ev.body.kind \in {"object", "null"}
                  /\ ev.status >= 400)
                  => task[t].res.status = ev.status

\* ------------------------------------------------------------- C9
\* C9: a response with status >= 400 whose body has an error object with a
\* message makes the call fail with an APIError that carries the upstream
\* status, exactly the body's error message and the raw body as details.
C9_BodyMessageWins ==
    ( /\ ev.op = "respond"
      /\ ev.status >= 400
      /\ ev.body.kind = "object"
      /\ ev.body.error = "object"
      /\ ev.body.message # "absent" )
    => /\ task[ev.task].pc = "done"
       /\ task[ev.task].res.kind = "APIError"
       /\ task[ev.task].res.status = ev.status
       /\ task[ev.task].res.message = ev.body.message
       /\ task[ev.task].res.details = ev.body

\* Status 422 with body {"error": {"message": "bad price"}} has just given
\* the message "bad price".
C9_Witness ==
    /\ ev.op = "respond"
    /\ ev.status = 422
    /\ ev.body = ErrMsgBody
    /\ task[ev.task].res.kind = "APIError"
    /\ task[ev.task].res.status = 422
    /\ task[ev.task].res.message = "bad price"
    /\ task[ev.task].res.message # ERROR_CODES[422]

\* ------------------------------------------------------------- C10
C10_TableStatuses == {400, 401, 403, 404, 409, 422, 429, 500, 503, 504}

C11_ServiceNeverRaises ==
    [][\A t \in Tasks :
          /\ (ev'.task = t /\ ev'.op = "service_return" /\ ev'.out # "next") =>
                /\ task'[t].pc = "returned"
                /\ task'[t].env.kind \in {"ok", "error"}
                /\ "success" \in task'[t].env.keys
                /\ task[t].res.kind # "ok" => task'[t].env.kind = "error"
          /\ (ev'.task = t /\ ev'.op = "service_clear_cache") =>
                /\ task'[t].pc = "returned"
                /\ task'[t].env.kind = "ok"
          /\ (task[t].pc = "done" /\ task[t].svc # "-") => ENABLED ServiceReturn(t)]_vars

\* A list operation has just returned an error envelope after the upstream
\* answered 200 with a body that is no JSON object.
C11_Witness ==
    /\ ev.op = "service_return"
    /\ task[ev.task].svc \in ListOps
    /\ task[ev.task].res.kind = "ok"
    /\ task[ev.task].res.data.kind = "null"
    /\ task[ev.task].pc = "returned"
    /\ task[ev.task].env.kind = "error"
    /\ task[ev.task].env.code = 500

\* ------------------------------------------------------------- C12
\* What the Repository call of the operation returned.
C12_RepositoryResult(t) ==
    IF task[t].svc = "clear_cache" THEN RepoNone ELSE task[t].res.data

\* The error shape, with the fields of the exception that was caught.
C12_ErrorShape(t) ==
    /\ task[t].env.kind = "error"
    /\ ~task[t].env.success
    /\ task[t].env.keys = {"success", "error"}
    /\ task[t].env.errkeys = {"code", "message", "details"}
    /\ IF task[t].res.kind = "APIError"
       THEN /\ task[t].env.code = task[t].res.status
            /\ task[t].env.message = task[t].res.message
            /\ task[t].env.details = task[t].res.details
       ELSE /\ task[t].env.code = 500
            /\ task[t].env.details = EmptyObj

\* C12 as stated: every returned envelope is {success: true, data, message}
\* with data equal to the Repository result, or {success: false, error} with
\* the APIError's fields, or code 500 and empty details for another exception.
C12_Original ==
    \A t \in Tasks :
        task[t].pc = "returned" =>
            \/ /\ task[t].env.kind = "ok"
               /\ task[t].env.success
               /\ task[t].env.keys = {"success", "data", "message"}
               /\ task[t].env.data = C12_RepositoryResult(t)
            \/ C12_ErrorShape(t)

\* C12 amended: the same, with data equal to the Repository result for the
\* operations that wrap one Repository method; the data of clear_cache is
\* {cache_cleared: true} and the data of the dashboard summary is the merge
\* of its four results.
C12_Amended ==
    \A t \in Tasks :
        task[t].pc = "returned" =>
            \/ /\ task[t].env.kind = "ok"
               /\ task[t].env.success
               /\ task[t].env.keys = {"success", "data", "message"}
               /\ task[t].svc \in SingleOps =>
                     /\ task[t].env.data = task[t].res.data
                     /\ task[t].env.parts = << >>
               /\ task[t].svc = "clear_cache" =>
                     task[t].env.data = [kind |-> "object", error |-> "absent",
                                         message |-> "absent", data |-> "cache_cleared"]
               /\ task[t].svc = "get_dashboard_summary" => Len(task[t].env.parts) = 4
            \/ C12_ErrorShape(t)

\* An operation has just returned the error envelope of an APIError 404 with
\* the upstream message and body.
C12_Witness ==
    /\ ev.op = "service_return"
    /\ task[ev.task].pc = "returned"
    /\ task[ev.task].res.kind = "APIError"
    /\ task[ev.task].env.kind = "error"
    /\ task[ev.task].env.code = 404
    /\ task[ev.task].env.message = "bad price"
    /\ task[ev.task].env.details = ErrMsgBody

\* ------------------------------------------------------------- C13
\* C13: with a valid configuration and every upstream answer of the
\* operation a success with a JSON object, get_dashboard_summary returns
\* {success: true} whose data holds the four sub-results.
C13_DashboardMerges ==
    \A t \in Tasks :
        ( /\ task[t].pc = "returned"
          /\ task[t].svc = "get_dashboard_summary"
          /\ \A f \in C7_Required : config[f] \notin {"", " "}
          /\ task[t].res.kind \in {"ok", "KeyError"}
          /\ \A i \in 1..Len(task[t].parts) : task[t].parts[i].kind = "object" )
        => /\ task[t].env.kind = "ok"
           /\ task[t].env.success
           /\ Len(task[t].env.parts) = 4

\* ------------------------------------------------------------- C14
\* C14: when a sub-call of get_dashboard_summary fails, the operation
\* returns one envelope with success false, without a data member and
\* without any result of the sub-calls that succeeded.
C14_NoPartialData ==
    [][\A t \in Tasks :
          ( /\ ev'.task = t
            /\ ev'.op = "service_return"
            /\ task[t].svc = "get_dashboard_summary"
            /\ task[t].res.kind # "ok" )
          => /\ task'[t].pc = "returned"
             /\ task'[t].env.kind = "error"
             /\ ~task'[t].env.success
             /\ "data" \notin task'[t].env.keys
             /\ task'[t].env.keys = {"success", "error"}
             /\ task'[t].env.parts = << >>
             /\ task'[t].env.data = NullBody]_vars

\* The dashboard has just returned an error envelope after its orders
\* sub-call had succeeded.
C14_Witness ==
    /\ ev.op = "service_return"
    /\ ev.out = "error"
    /\ task[ev.task].svc = "get_dashboard_summary"
    /\ Len(task[ev.task].parts) = 1
    /\ task[ev.task].parts[1].kind = "object"
    /\ task[ev.task].env.kind = "error"
    /\ "data" \notin task[ev.task].env.keys

\* ------------------------------------------------------------- C15
C15_Order ==
    <<"get_orders", "get_sales_statistics", "get_visitor_statistics", "get_products">>

C16_NoRetry ==
    [][\A t \in Tasks :
          /\ task'[t].sent <= 1
          /\ task'[t].acq <= 1
          /\ task'[t].svc \in SingleOps => Len(task'[t].started) <= 1
          /\ (ev'.task = t /\ ev'.op = "respond" /\ task'[t].res.kind # "ok") =>
                /\ task'[t].pc = "done"
                /\ task'[t].sent = task[t].sent
                /\ requests' = requests
          /\ (ev'.task = t /\ ev'.op = "service_return" /\ task[t].res.kind # "ok") =>
                /\ task'[t].pc = "returned"
                /\ task'[t].env.kind = "error"
                /\ task'[t].started = task[t].started
                /\ task'[t].sent = task[t].sent
                /\ requests' = requests]_vars

\* An operation has just returned the error of its one attempt, which failed
\* in the transport.
C16_Witness ==
    /\ ev.op = "service_return"
    /\ ev.out = "error"
    /\ task[ev.task].svc \in SingleOps
    /\ task[ev.task].sent = 1
    /\ task[ev.task].acq = 1
    /\ task[ev.task].res.kind = "APIError"
    /\ task[ev.task].res.status = 500
    /\ task[ev.task].res.message = "network error"
    /\ task[ev.task].env.code = 500

\* ------------------------------------------------------------- C17
\* C17: a call of acquire, for every max_requests from 0 and every earlier
\* state of the list, either is admitted or is waiting: it never ends with
\* an error.
C17_AcquireNeverErrors ==
    /\ ev.op \in {"execute", "wake"} => ev.out \in {"sleep", "sent", "no_session"}
    /\ \A t \in Tasks : task[t].res.kind # "IndexError"

\* ------------------------------------------------------------- C18
\* With finitely many calls, every caller that waits is admitted in the end.
C18_EventuallyAdmitted ==
    (<>[](ev.op # "execute")) =>
        \A t \in Tasks :
            [](task[t].pc = "sleeping" => <>(task[t].pc \in {"inflight", "done"}))

\* A caller that has to wait is suspended until the oldest recorded
\* timestamp leaves the window, which is later than now, and takes no step
\* before that time.
C18_SuspendedNoSpin ==
    [][\A t \in Tasks :
          /\ (ev'.task = t /\ ev'.out = "sleep") =>
                /\ task'[t].pc = "sleeping"
                /\ task'[t].wakeAt = requests'[task[t].client][1] + TimeWindow
                /\ task'[t].wakeAt > now
          /\ (task[t].pc = "sleeping" /\ ev'.task = t) =>
                /\ ev'.op = "wake"
                /\ now >= task[t].wakeAt]_vars

\* C18: with max_requests >= 1, finitely many calls and time that keeps
\* advancing, every call of acquire is admitted in the end; a caller that
\* waits is suspended at least until the oldest recorded timestamp leaves
\* the window and does not spin.
C18_AdmittedWithoutSpinning ==
    /\ C18_EventuallyAdmitted
    /\ C18_SuspendedNoSpin

\* A caller that had to wait has just been admitted on waking, at the moment
\* its sleep was over.
C18_Witness ==
    /\ ev.op = "wake"
    /\ ev.out = "sent"
    /\ limiter[1].max_requests >= 1
    /\ task[ev.task].pc = "inflight"
    /\ now >= task[ev.task].wakeAt

\* ------------------------------------------------------------- C19
\* C19: the step in which a call of acquire is admitted appends exactly one
\* timestamp, the current time, to the pruned list; a step in which a caller
\* goes to sleep, at its call or at a wake-up that finds the limiter still at
\* capacity, appends nothing; no other step appends.
C19_AppendOnlyOnAdmission ==
    [][\A c \in ClientIds :
          LET pruned == SelectSeq(requests[c], LAMBDA r : now - r < TimeWindow)
          IN  /\ (ev'.op \in {"execute", "wake"} /\ task[ev'.task].client = c
                    /\ ev'.out \in {"sent", "no_session"}) =>
                    /\ requests'[c] = Append(pruned, now)
                    /\ task[ev'.task].pc # "inflight"
                    /\ task'[ev'.task].pc # "sleeping"
              /\ (ev'.op \in {"execute", "wake"} /\ task[ev'.task].client = c
                    /\ ev'.out = "sleep") =>
                    /\ requests'[c] = pruned
                    /\ task'[ev'.task].pc = "sleeping"
              /\ (ev'.op \in {"execute", "wake"} /\ task[ev'.task].client = c
                    /\ ev'.out = "index_error") =>
                    requests'[c] = pruned
              /\ (ev'.op \notin {"execute", "wake"}) =>
                    Len(requests'[c]) = Len(requests[c])]_vars

\* A caller has just woken up, found the limiter still at capacity and gone
\* back to sleep.
C19_Witness ==
    /\ ev.op = "wake"
    /\ ev.out = "sleep"
    /\ task[ev.task].pc = "sleeping"
    /\ Len(requests[1]) = limiter[1].max_requests

\* ------------------------------------------------------------- C20
\* C20: no caller is admitted while a caller that began to wait before it is
\* still waiting, whether the admitted caller has waited itself or arrives in
\* this step.
C20_FirstComeFirstAdmitted ==
    [][\A a \in Tasks, b \in Tasks :
          ( /\ a # b
            /\ ev'.task = b
            /\ ev'.op \in {"execute", "wake"}
            /\ ev'.out \in {"sent", "no_session"}
            /\ task[a].pc = "sleeping"
            /\ task[a].client = task[b].client )
          => /\ ev'.op # "execute"
             /\ a \notin task[b].ahead]_vars

\* ------------------------------------------------------------- C25
\* C25: whenever the rate limiter has admitted a call of a client, whether
\* the client was entered or only constructed (or injected into a
\* Repository), the client has an open session and the request is issued on
\* it; and the session of a client stays the one it is until it is released.
C25_SessionWheneverRequest ==
    [][/\ \A t \in Tasks :
             ( /\ ev'.task = t
               /\ ev'.op \in {"execute", "wake"}
               /\ ev'.out \in {"sent", "no_session"} )
             => /\ session[task[t].client] = "open"
                /\ task'[t].pc = "inflight"
                /\ task'[t].sent = 1
       /\ \A c \in ClientIds :
             session[c] = "open" => session'[c] \in {"open", "closed"}]_vars

\* ------------------------------------------------------------- C27
\* In this step caller t starts a cache-enabled GET while caller a, on the
\* same client, is awaiting the response to a GET with the same method, URL
\* and parameters, and the cache has no valid entry for their key.
C27_SecondWhileInFlight(a, t) ==
    /\ a # t
    /\ ev'.op = "execute"
    /\ ev'.task = t
    /\ ev'.out # "config_error"
    /\ task'[t].req.method = "GET"
    /\ task'[t].req.use_cache
    /\ task[a].pc = "inflight"
    /\ task[a].req = task'[t].req
    /\ task[a].client = task[t].client
    /\ LET e == cache[task[t].client][KeyOf(task'[t].req)]
       IN  ~(e.present /\ now - e.timestamp < CacheTtl)

\* C27: the second of two identical GETs that starts while the first is in
\* flight sends no HTTP request of its own and does not await a response of
\* its own, so that the two calls result in exactly one upstream request.
C27_OneUpstreamRequest ==
    [][\A a \in Tasks, t \in Tasks :
          C27_SecondWhileInFlight(a, t) =>
              /\ task'[t].sent = 0
              /\ task'[t].pc # "inflight"]_vars

\* ------------------------------------------------------------- C28
\* In this step caller t starts a cache-enabled GET, with a valid
\* configuration, whose key has an entry that has expired.
C28_LookupExpired(t) ==
    /\ ev'.op = "execute"
    /\ ev'.task = t
    /\ ev'.out # "config_error"
    /\ task'[t].req.method = "GET"
    /\ task'[t].req.use_cache
    /\ LET e == cache[task[t].client][KeyOf(task'[t].req)]
       IN  e.present /\ now - e.timestamp >= CacheTtl

\* In this step the exchange of a cache-enabled GET of caller t ends.
C28_ExchangeEnds(t) ==
    /\ ev'.op = "respond"
    /\ ev'.task = t
    /\ task[t].req.method = "GET"
    /\ task[t].req.use_cache

\* C28: a payload a GET returns is the payload of an entry younger than the
\* TTL at the time of the call, or the body of the response received in that
\* call.  No step but a store or clear_cache touches an entry (no sweep).  A
\* GET whose entry has expired is not served from it: it calls the rate
\* limiter; a success of its exchange overwrites the entry with the body and
\* the time of the store, and a failure returns the error and leaves the
\* entry alone.
C28_StaleNeverServed ==
    [][/\ \A t \in Tasks :
             /\ (ev'.task = t /\ task'[t].pc = "done" /\ task'[t].res.kind = "ok"
                   /\ task'[t].req.method = "GET") =>
                   \/ /\ ev'.op = "execute"
                      /\ task'[t].res.src = "cache"
                      /\ LET e == cache[task[t].client][KeyOf(task'[t].req)]
                         IN  /\ e.present
                             /\ now - e.timestamp < CacheTtl
                             /\ task'[t].res.data = e.data
                   \/ /\ ev'.op = "respond"
                      /\ task'[t].res.src = "upstream"
                      /\ ev'.status < 400
                      /\ task'[t].res.data = ev'.body
             /\ C28_LookupExpired(t) =>
                   /\ ev'.out \in {"sleep", "sent", "no_session"}
                   /\ task'[t].acq = 1
                   /\ task'[t].res.kind # "ok"
             /\ (C28_ExchangeEnds(t) /\ task'[t].res.kind = "ok") =>
                   LET e == cache'[task[t].client][KeyOf(task[t].req)]
                   IN  /\ e.present
                       /\ e.timestamp = now
                       /\ e.data = task'[t].res.data
             /\ (C28_ExchangeEnds(t) /\ ~(task'[t].res.kind = "ok")) =>
                   /\ task'[t].res.kind = "APIError"
                   /\ task'[t].res.data = NullBody
                   /\ cache' = cache
       /\ (ev'.op \notin {"respond", "clear_cache"}) => cache' = cache]_vars

\* A GET whose entry had expired went upstream and failed: the call has
\* returned the error, and the expired entry is still in the cache.
C28_Witness ==
    /\ ev.op = "respond"
    /\ ev.status = 404
    /\ task[ev.task].req.method = "GET"
    /\ task[ev.task].req.use_cache
    /\ task[ev.task].res.kind = "APIError"
    /\ LET e == cache[task[ev.task].client][KeyOf(task[ev.task].req)]
       IN  /\ e.present
           /\ now - e.timestamp >= CacheTtl
           /\ e.data = Obj("P1")

\* ------------------------------------------------------------- C26
\* The timestamps of client c inside the window at the current time.
C26_InWindow(c) == SelectSeq(requests[c], LAMBDA r : now - r < TimeWindow)

\* C26: the list a caller is admitted on is the list as the same step pruned
\* and checked it: it was below capacity and the step leaves it with now
\* appended, so no step of another caller lies between the prune, the check
\* and the append.  A caller that wakes while the pruned list is at capacity
\* waits again; so when a caller is admitted on waking into the last free
\* place while another one waits, the list is at capacity again and the other
\* one is still waiting after the step.
C26_SerializedOnList ==
    [][\A t \in Tasks :
          LET c == task[t].client
              inWindow == C26_InWindow(c)
          IN  /\ (ev'.task = t /\ ev'.op \in {"execute", "wake"}
                    /\ ev'.out \in {"sent", "no_session"}) =>
                    /\ Len(inWindow) < limiter[c].max_requests
                    /\ requests'[c] = Append(inWindow, now)
                    /\ \A u \in Tasks \ {t} : task'[u].pc = task[u].pc
              /\ (ev'.task = t /\ ev'.op = "wake"
                    /\ Len(inWindow) >= limiter[c].max_requests) =>
                    /\ ev'.out = "sleep"
                    /\ task'[t].pc = "sleeping"
                    /\ task'[t].wakeAt > now
                    /\ requests'[c] = inWindow
              /\ (ev'.task = t /\ ev'.op = "wake" /\ ev'.out = "sent"
                    /\ Len(inWindow) = limiter[c].max_requests - 1) =>
                    /\ Len(requests'[c]) = limiter[c].max_requests
                    /\ \A u \in Tasks \ {t} :
                          (task[u].pc = "sleeping" /\ task[u].client = c) =>
                              task'[u].pc = "sleeping"]_vars

\* Two callers were waiting at capacity and one timestamp has aged out: one
\* of them has just been admitted on waking, the list is at capacity again,
\* and the other one, whose sleep is over as well, is still waiting.
C26_Witness ==
    /\ ev.op = "wake"
    /\ ev.out = "sent"
    /\ limiter[1].max_requests = MaxRequests
    /\ Len(requests[1]) = MaxRequests
    /\ \A i \in 1..Len(requests[1]) : now - requests[1][i] < TimeWindow
    /\ \E u \in Tasks \ {ev.task} :
          /\ task[u].pc = "sleeping"
          /\ task[u].client = 1
          /\ task[u].wakeAt <= now

\* ------------------------------------------------------------- C21
\* C21: a Repository without a client creates one in _get_client, a client
\* that did not exist before, with an open session, an empty cache and an
\* empty timestamp list; a Repository with a client hands out that client,
\* and nothing of it changes; close() closes the session of the client and
\* then clears the reference; no other step changes the reference or a
\* session.  So the operation after a close() creates a fresh client.
C21_LazyClientLifecycle ==
    [][/\ \A t \in Tasks :
             (ev'.op = "get_client" /\ ev'.task = t) =>
                 IF repo = NoClient
                 THEN /\ repo' # NoClient
                      /\ session[repo'] = "unborn"
                      /\ session'[repo'] = "open"
                      /\ requests'[repo'] = << >>
                      /\ \A k \in DOMAIN cache'[repo'] : ~cache'[repo'][k].present
                      /\ task'[t].client = repo'
                      /\ \A c \in ClientIds \ {repo'} : session'[c] = session[c]
                 ELSE /\ repo' = repo
                      /\ task'[t].client = repo
                      /\ session' = session
                      /\ requests' = requests
                      /\ cache' = cache
       /\ (ev'.op = "close" /\ ev'.out = "exit") =>
             /\ repo # NoClient
             /\ session[repo] = "open"
             /\ session'[repo] = "closed"
             /\ repo' = repo
       /\ (ev'.op = "close" /\ ev'.out = "done") =>
             /\ repo' = NoClient
             /\ session' = session
       /\ (ev'.op = "close" /\ ev'.out = "no_client") =>
             /\ repo = NoClient
             /\ repo' = NoClient
             /\ session' = session
       /\ (ev'.op \notin {"get_client", "close"}) =>
             /\ repo' = repo
             /\ session' = session]_vars

\* The first operation after a close() has just created a client: the closed
\* one still holds its cache entry and its timestamps, the new one has an open
\* session, no entry and no timestamp.
C21_Witness ==
    /\ ev.op = "get_client"
    /\ ev.out = "created"
    /\ repo # NoClient
    /\ session[repo] = "open"
    /\ requests[repo] = << >>
    /\ \A k \in DOMAIN cache[repo] : ~cache[repo][k].present
    /\ \E c \in ClientIds \ {repo} :
          /\ session[c] = "closed"
          /\ Len(requests[c]) > 0
          /\ \E k \in DOMAIN cache[c] : cache[c][k].present

\* ------------------------------------------------------------- C23
\* C23: every Repository domain operation that ends, having been called with
\* a valid configuration and not having been served from the cache, has
\* called the rate limiter once and sent one HTTP request.
C23_OneRequestPerOperation ==
    [][\A t \in Tasks :
          ( /\ ev'.op = "repo_return"
            /\ ev'.task = t
            /\ ValidateConfig(config)
            /\ task[t].res.src # "cache" )
          => /\ task[t].acq = 1
             /\ task[t].sent = 1]_vars

\* ------------------------------------------------------------- C24
\* In this step a Repository method of caller t ends after
\* client._make_request raised an error.
C24_ExecuteRaised(t) ==
    /\ ev'.op = "repo_return"
    /\ ev'.task = t
    /\ task[t].res.kind \notin {"ok", "KeyError"}

\* The step leaves the client reference, the caches, the limiters and the
\* sessions as they are.
C24_NothingAltered ==
    /\ repo' = repo
    /\ cache' = cache
    /\ requests' = requests
    /\ limiter' = limiter
    /\ session' = session

\* C24 as stated: for every Repository operation an error raised by
\* APIClient.execute reaches the caller of the Repository unchanged, with the
\* same status code, message and details, and the failure alters neither the
\* client reference nor the cache nor the rate limiter.
C24_Original ==
    [][\A t \in Tasks :
          C24_ExecuteRaised(t) =>
              /\ task'[t].res = task[t].res
              /\ C24_NothingAltered]_vars

\* C24 amended: the same for every Repository operation but health_check;
\* health_check returns False when execute raised a Cafe24APIError and lets
\* every other error through unchanged.
C24_Amended ==
    [][\A t \in Tasks :
          C24_ExecuteRaised(t) =>
              /\ C24_NothingAltered
              /\ IF task[t].started[1] = "health_check" /\ task[t].res.kind = "APIError"
                 THEN /\ task'[t].res.kind = "ok"
                      /\ task'[t].res.data.kind = "bool"
                      /\ task'[t].res.data.data = "False"
                 ELSE task'[t].res = task[t].res]_vars

\* get_products has just ended with the Cafe24APIError that execute raised
\* on a 404 answer: its status, the message of the body, the body as details.
C24_Witness ==
    /\ ev.op = "repo_return"
    /\ ev.out = "get_products"
    /\ task[ev.task].pc = "returned"
    /\ task[ev.task].res.kind = "APIError"
    /\ task[ev.task].res.status = 404
    /\ task[ev.task].res.message = "bad price"
    /\ task[ev.task].res.details = ErrMsgBody
    /\ repo = task[ev.task].client

\* ------------------------------------------------------------- C30
\* C30: whenever a request is sent, the requests sent through the clients of
\* the Repository within the window that ends now, this one included, are at
\* most rate_limit_per_minute.  (The caller is alone, and the session of the
\* Repository's client is open whenever it is admitted: every recorded
\* timestamp is that of a request sent.)
C30_RateAcrossClose ==
    [][ev'.out = "sent" =>
          Cardinality({ ci \in ClientIds \X (1..(2 * MaxRequests)) :
                          /\ ci[2] <= Len(requests'[ci[1]])
                          /\ now - requests'[ci[1]][ci[2]] < TimeWindow })
              <= MaxRequests]_vars

\* ------------------------------------------------------------- C22
\* The names in the parameter mapping.
C22_Names(params) == { params.items[i][1] : i \in 1..Len(params.items) }

\* C22: the parameter mapping a list operation passes to the client has
\* limit and offset, and has a filter of the operation exactly when the
\* caller supplied it (it is not None), whatever its value, 0 and the empty
\* string included; every member has the value the caller gave.
C22_FilterIffSupplied ==
    [][\A t \in Tasks :
          ( /\ task[t].pc = "ready"
            /\ task'[t].pc # "ready"
            /\ task[t].started[1] \in ListMethods )
          => LET method == task[t].started[1]
                 args == task[t].args
                 params == task'[t].req.params
             IN  /\ params.given
                 /\ {"limit", "offset"} \subseteq C22_Names(params)
                 /\ \A i \in 1..Len(Filters(method)) :
                       (Filters(method)[i] \in C22_Names(params))
                           <=> (args[Filters(method)[i]] # PyNone)
                 /\ \A i \in 1..Len(params.items) :
                       params.items[i][2] = args[params.items[i][1]]]_vars

\* ------------------------------------------------------------- C29
\* The parameter mapping of a call: its items whatever their order; None
\* counts as the empty mapping.
C29_Mapping(params) ==
    IF params.given THEN { params.items[i] : i \in 1..Len(params.items) } ELSE {}

\* Call r and the call that wrote entry e have the same method, the same URL
\* and the same parameter mapping.
C29_SameCall(e, r) ==
    /\ e.by.method = r.method
    /\ e.by.url = r.url
    /\ C29_Mapping(e.by.params) = C29_Mapping(r.params)

\* C29: a cache-eligible GET reads the entry of an earlier call if and only
\* if the two have the same method, URL and parameter mapping, in whatever
\* order the parameters were inserted and whether no parameters are None or
\* an empty dict: it is served from a valid entry exactly when such a call
\* wrote one, and with its payload.  It writes the same entry on the same
\* condition: its store replaces the entries of the calls it agrees with,
\* and leaves every other entry as it is.
C29_SameEntryIffSameCall ==
    [][\A t \in Tasks :
          LET c == task[t].client
              r == task'[t].req
          IN  /\ (ev'.op = "execute" /\ ev'.task = t /\ r.method = "GET" /\ r.use_cache) =>
                    /\ \A k \in DOMAIN cache[c] :
                          ( /\ cache[c][k].present
                            /\ now - cache[c][k].timestamp < CacheTtl
                            /\ C29_SameCall(cache[c][k], r) )
                          => /\ ev'.out = "hit"
                             /\ task'[t].res.data = cache[c][k].data
                    /\ ev'.out = "hit" =>
                          \E k \in DOMAIN cache[c] :
                              /\ cache[c][k].present
                              /\ now - cache[c][k].timestamp < CacheTtl
                              /\ C29_SameCall(cache[c][k], r)
                              /\ task'[t].res.data = cache[c][k].data
              /\ (ev'.op = "respond" /\ ev'.task = t /\ ev'.out = "stored") =>
                    /\ \E k \in DOMAIN cache[c] :
                          /\ cache'[c][k].present
                          /\ cache'[c][k].by.params = task[t].req.params
                          /\ cache'[c][k].data = ev'.body
                          /\ cache'[c][k].timestamp = now
                    /\ \A k \in DOMAIN cache[c] :
                          cache[c][k].present =>
                              IF C29_SameCall(cache[c][k], task[t].req)
                              THEN /\ cache'[c][k].data = ev'.body
                                   /\ cache'[c][k].timestamp = now
                              ELSE cache'[c][k] = cache[c][k]]_vars

\* A GET has just been served from the entry that a call with the same two
\* parameters, inserted in the other order, stored.
C29_Witness ==
    /\ ev.op = "execute"
    /\ ev.out = "hit"
    /\ Len(task[ev.task].req.params.items) = 2
    /\ \E k \in DOMAIN cache[1] :
          /\ cache[1][k].present
          /\ cache[1][k].data = task[ev.task].res.data
          /\ cache[1][k].by.url = task[ev.task].req.url
          /\ cache[1][k].by.params # task[ev.task].req.params
          /\ C29_Mapping(cache[1][k].by.params) = C29_Mapping(task[ev.task].req.params)

\* ------------------------------------------------------------- C33
\* C33: the step in which a call with a method other than GET ends
\* successfully leaves every cache entry as it is; and a cache-enabled GET
\* that starts while another caller holds the result of such a successful
\* write, and whose key has an entry younger than the TTL, sends no request
\* and returns the payload of that entry.
C33_WriteKeepsCache ==
    [][\A t \in Tasks :
          /\ ( /\ ev'.op = "respond"
               /\ ev'.task = t
               /\ task[t].req.method # "GET"
               /\ task'[t].res.kind = "ok" )
             => cache' = cache
          /\ ( /\ ev'.op = "execute"
               /\ ev'.task = t
               /\ ev'.out # "config_error"
               /\ task'[t].req.method = "GET"
               /\ task'[t].req.use_cache
               /\ \E a \in Tasks \ {t} :
                     /\ task[a].pc = "done"
                     /\ task[a].req.method # "GET"
                     /\ task[a].req.url = task'[t].req.url
                     /\ task[a].res.kind = "ok"
               /\ LET e == cache[task[t].client][KeyOf(task'[t].req)]
                  IN  e.present /\ now - e.timestamp < CacheTtl )
             => /\ task'[t].pc = "done"
                /\ task'[t].sent = 0
                /\ task'[t].res.kind = "ok"
                /\ task'[t].res.data =
                       cache[task[t].client][KeyOf(task'[t].req)].data]_vars

\* A POST has succeeded on the URL while the other caller's GET held an
\* entry for it, and a GET started after the write has just been served the
\* payload cached before the write.
C33_Witness ==
    /\ ev.op = "execute"
    /\ ev.out = "hit"
    /\ task[ev.task].req.method = "GET"
    /\ task[ev.task].res.data = Obj("P1")
    /\ \E a \in Tasks \ {ev.task} :
          /\ task[a].pc = "done"
          /\ task[a].req.method = "POST"
          /\ task[a].req.url = task[ev.task].req.url
          /\ task[a].res.kind = "ok"
          /\ task[a].res.data = Obj("P2")
          /\ cache[1][KeyOf(task[ev.task].req)].by.task = ev.task

\* ------------------------------------------------------------- C34
\* C34: the step in which a call that was admitted by the rate limiter fails
\* (a status of 400 or more, a transport failure, a body that cannot be
\* decoded) changes no cache entry and no timestamp list, and the list of the
\* client still holds a timestamp, that of the admission.
C34_FailureKeepsCacheAndSlot ==
    [][\A t \in Tasks :
          ( /\ ev'.op = "respond"
            /\ ev'.task = t
            /\ task'[t].res.kind # "ok" )
          => /\ cache' = cache
             /\ requests' = requests
             /\ task[t].acq = 1
             /\ Len(requests'[task[t].client]) >= 1
             /\ requests'[task[t].client][Len(requests'[task[t].client])] <= now]_vars

\* A cache-enabled GET has just failed on a body that is no JSON, in the
\* window of its admission: the entry stored earlier is still there, and the
\* timestamp list holds the admission.
C34_Witness ==
    /\ ev.op = "respond"
    /\ ev.body = BadJsonBody
    /\ task[ev.task].res.kind = "APIError"
    /\ task[ev.task].res.status = 500
    /\ task[ev.task].req.method = "GET"
    /\ cache[1][KeyOf(task[ev.task].req)].present
    /\ Len(requests[1]) >= 1
    /\ now - requests[1][Len(requests[1])] < TimeWindow

\* ------------------------------------------------------------- C38
C38_Sorted(q) == \A i \in 1..Len(q) : \A j \in i..Len(q) : q[i] <= q[j]

C38_Pruned(c) == SelectSeq(requests[c], LAMBDA r : now - r < TimeWindow)

\* C38: the timestamp list of every limiter is in non-decreasing order
\* before and after every step, with callers interleaved and time passing;
\* whenever the pruned list is at capacity and holds a timestamp, the wait
\* computed from its first element is strictly positive; and a step of
\* acquire leaves the list as it was, pruned, or pruned with the current
\* time appended, the last only when the pruned list was below capacity.
C38_OrderedAndNoAppendAtCapacity ==
    [][\A c \in ClientIds :
          LET pruned == C38_Pruned(c)
              max == limiter[c].max_requests
          IN  /\ C38_Sorted(requests[c])
              /\ C38_Sorted(requests'[c])
              /\ (Len(pruned) >= max /\ Len(pruned) > 0)
                    => TimeWindow - (now - pruned[1]) > 0
              /\ (ev'.op \in {"execute", "wake"})
                    => /\ requests'[c] \in {requests[c], pruned, Append(pruned, now)}
                       /\ Len(requests'[c]) > Len(pruned) /\ requests'[c] # requests[c]
                             => Len(pruned) < max]_vars

\* A caller has just found the pruned list at capacity, with two timestamps
\* of different age in it, and sleeps until the older one leaves the window;
\* nothing was appended.
C38_Witness ==
    /\ ev.op \in {"execute", "wake"}
    /\ ev.out = "sleep"
    /\ limiter[1].max_requests = 2
    /\ Len(requests[1]) = 2
    /\ requests[1][1] < requests[1][2]
    /\ task[ev.task].pc = "sleeping"
    /\ task[ev.task].wakeAt = requests[1][1] + TimeWindow
    /\ task[ev.task].wakeAt > now

\* ------------------------------------------------------------- C35
\* C35: when Repository.health_check ends, it returns True only if in that
\* call one request was sent upstream and its answer, with a status below
\* 400, is what execute returned; and it returns False exactly when execute
\* raised a Cafe24APIError.
C35_HealthyOnlyIfAnswered ==
    [][\A t \in Tasks :
          ( /\ ev'.op = "repo_return"
            /\ ev'.task = t
            /\ ev'.out = "health_check" )
          => /\ (task'[t].res.kind = "ok" /\ task'[t].res.data.data = "True")
                   => /\ task[t].sent = 1
                      /\ task[t].res.src = "upstream"
             /\ (task'[t].res.kind = "ok" /\ task'[t].res.data.data = "False")
                   <=> task[t].res.kind = "APIError"]_vars

\* ------------------------------------------------------------- C36
\* C36: with one tool invocation at a time, an invocation returns only by
\* a step of close, whatever envelope the Service operation returned;
\* whenever it has returned the Repository holds no client and no session
\* is open; and the first _get_client of the next invocation creates a
\* client that did not exist, with an open session, no cache entry and no
\* timestamp.
C36_CloseBeforeReturn ==
    [][ /\ (task'[1].pc = "returned" /\ task'[1].started = <<"close">>)
              => /\ repo' = NoClient
                 /\ \A c \in ClientIds : session'[c] # "open"
        /\ ( /\ task[1].pc = "returned"
             /\ task[1].svc # "-"
             /\ <<task'[1].pc, task'[1].svc, task'[1].started>>
                   # <<task[1].pc, task[1].svc, task[1].started>> )
              => /\ ev'.op = "close"
                 /\ ev'.out \in {"exit", "no_client"}
                 /\ repo # NoClient => session'[repo] = "closed"
        /\ ( /\ ev'.op = "get_client"
             /\ Len(task[1].started) = 1 )
              => /\ ev'.out = "created"
                 /\ session[repo'] = "unborn"
                 /\ session'[repo'] = "open"
                 /\ requests'[repo'] = << >>
                 /\ \A k \in DOMAIN cache'[repo'] : ~cache'[repo'][k].present ]_vars

\* A second invocation has just been given its client: the client of the
\* first one is closed and still holds the timestamp of its request.
C36_Witness ==
    /\ ev.op = "get_client"
    /\ ev.out = "created"
    /\ repo = 2
    /\ session[1] = "closed"
    /\ session[2] = "open"
    /\ Len(requests[1]) = 1
    /\ requests[2] = << >>

\* ------------------------------------------------------------- C31
\* C31: with two tool invocations interleaved, no invocation's close
\* closes the session of a client on which the other invocation has a
\* request in flight or is about to issue one: a step that closes a session
\* finds no other caller between _get_client and the end of its request on
\* that client, and no request is issued on a closed session (which
\* aiohttp refuses with RuntimeError).
C31_NoCloseUnderRequest ==
    [][\A a \in Tasks :
          /\ ( /\ ev'.op = "close"
               /\ ev'.task = a
               /\ session' # session )
             => \A t \in Tasks \ {a} :
                   ~( /\ task[t].pc \in {"ready", "sleeping", "inflight"}
                      /\ task[t].client = repo )
          /\ ( /\ ev'.op \in {"repo_call", "execute", "wake"}
               /\ ev'.task = a )
             => /\ task'[a].res.kind # "RuntimeError"
                /\ task'[a].pc = "inflight" => session[task'[a].client] = "open" ]_vars

\* ------------------------------------------------------------- C32
\* C32: in every state at most one session that the Repository created is
\* open; and when a close() has just returned while no task is inside a
\* Repository call or another close(), no session is open.
C32_OneSessionAndNoneLeftOpen ==
    /\ Cardinality({ c \in ClientIds : session[c] = "open" }) <= 1
    /\ ( /\ ev.op = "close"
         /\ ev.out \in {"done", "no_client"}
         /\ \A t \in Tasks : task[t].pc \in {"idle", "returned"} )
       => \A c \in ClientIds : session[c] # "open"

\* ------------------------------------------------------------- C37
\* C37: close() called on a Repository without a client returns at once,
\* raises nothing and changes no client reference, session, cache, limiter
\* or timestamp list; a close() that has gone through leaves the Repository
\* without a client, so that a close() following it is such a call; and
\* clear_cache() on a Repository without a client changes nothing and
\* leaves it without a client.
C37_CloseIdempotentClearCacheInert ==
    [][ /\ \A t \in Tasks :
              ( /\ ev'.op = "close"
                /\ ev'.task = t
                /\ task[t].pc # "closing"
                /\ repo = NoClient )
              => /\ ev'.out = "no_client"
                 /\ task'[t].pc = "returned"
                 /\ task'[t].res.kind = "none"
                 /\ UNCHANGED <<now, config, session, requests, cache, repo, limiter>>
        /\ (ev'.op = "close" /\ ev'.out = "done") => repo' = NoClient
        /\ (ev'.op = "clear_cache" /\ repo = NoClient)
              => /\ repo' = NoClient
                 /\ ev'.n = 0
                 /\ UNCHANGED <<now, config, session, requests, cache, limiter, task>> ]_vars

\* A close() has just returned without doing anything, on a Repository whose
\* client was closed and released by an earlier close(); the closed client
\* keeps what it had stored.
C37_Witness ==
    /\ ev.op = "close"
    /\ ev.out = "no_client"
    /\ repo = NoClient
    /\ session[1] = "closed"
    /\ session[2] = "unborn"
    /\ \E k \in DOMAIN cache[1] : cache[1][k].present
    /\ \A t \in Tasks : task[t].pc \in {"idle", "returned"}

====
